---- MODULE Spec2Model ----
(***************************************************************************)
(* Authentication core of the e-wallet backend: signup / login with a      *)
(* one-time code (OTP), trusted devices, JWT session and pre-auth tokens,  *)
(* and the authMiddleware that guards the protected routes.                *)
(*                                                                         *)
(* Every request handler of authController.ts is one action (Spec).  In    *)
(* SpecConc the handler verifyLoginOTP is cut at its await points, so that *)
(* two requests interleave the way two HTTP requests do on the Node event  *)
(* loop with the database as the only shared state.                        *)
(*                                                                         *)
(* Time is counted in units of ten minutes.                                *)
(***************************************************************************)
EXTENDS Integers, Sequences, FiniteSets, TLC

\* ------------------------------------------------------------------ bounds
\* The clock stops at MaxTime.
MaxTime == 2
\* OTP documents ever created (each gets a fresh _id).
MaxOtps == 2
\* Requests of verifyLoginOTP that may be in flight at once (SpecConc).
MaxInflight == 2
\* Letters of the longest plain value handed to secureStorage (SpecCache).
MaxLen == 3
\* The browser's clock stops at MaxClock (SpecClient).
MaxClock == 4
\* startSession calls on one page (SpecClient).
MaxListeners == 2

\* ------------------------------------------------------- program constants
\* 10 * 60 * 1000 ms = one unit of ten minutes.
OTP_TTL == 1
\* expiresIn: '10m' of the pre-auth token.
PREAUTH_TTL == 1
\* 30 days of a trusted device (authController.ts:267), scaled down to two
\* units: longer than a code lives, short enough to run out on this clock.
DEVICE_TTL == 2
\* JWT_EXPIRE '7d' (authService.ts:11), scaled down likewise.
SESSION_TTL == 2
\* SessionManager.TIMEOUT_DURATION, 30 minutes: two units of the browser's
\* clock.
TIMEOUT_DURATION == 2

\* -------------------------------------------------------------- the inputs
\* A field a request body does not carry (undefined, or the empty string:
\* both are falsy in the handlers' `!x` tests).
Undefined == ""

Emails == {"ann", "ANN"}
\* An address that logs in but never registers in a run; SpecAccounts starts
\* with its account in the database.
Strangers == {"eve"}
Passwords == {"pw1", "pw2"}
Names == {"Ann"}
Codes == {"111111", "222222"}
DeviceIds == {"dev1"}

\* String.prototype.toLowerCase on the e-mail addresses above.
toLowerCase(s) ==
  IF s = "ANN" THEN "ann" ELSE s

\* bcryptjs.hash with a fresh salt: one-way, and compare() inverts it only
\* for the same plaintext.
hashPassword(password) ==
  <<"bcrypt", password>>

comparePassword(password, hashedPassword) ==
  hashedPassword = hashPassword(password)

\* jwt.sign with JWT_SECRET; any other signer gives a signature that
\* jwt.verify rejects.
JWT_SECRET == "ewallet_jwt_secret_key_2024_change_in_production"

NoToken == [userId |-> 0, email |-> "", preAuth |-> FALSE, exp |-> 0, sig |-> ""]

VARIABLES
  now,       \* the server clock (Date.now()), in units
  users,     \* the User collection: a sequence, _id = index
  otps,      \* the OTP collection in natural (insertion) order
  otpSeq,    \* number of OTP documents created so far (the last _id)
  inflight,  \* SpecConc, SpecDevice: the verifyLoginOTP requests between
             \* two awaits
  last,      \* the request handled last and its response
  accepted,  \* history: the accounts for which a login request has
             \* presented the right password
  localStorage,  \* the browser's localStorage: storage key -> string or Null
  lastSet,   \* the secureStorage.setItem call handled last, if no other
             \* secureStorage call followed it
  lastGet,   \* the secureStorage.getItem call handled last, its result and
             \* the setItem call it followed at once (if any)
  lastCall,  \* the secureStorage method called last ("corrupt": the entry
             \* was overwritten from outside the program)
  currentView,   \* App: the view shown (React state)
  userEmail,     \* App: the e-mail of the user (React state)
  timers,        \* the inactivity timeouts pending in the page: [id, at]
  timeoutId,     \* SessionManager.INACTIVITY_TIMEOUT_ID, 0 for null
  listeners,     \* startSession calls whose four listeners are registered
  clock,         \* the browser's clock, in units
  lastEvent,     \* the event the page handled last
  lastActivity,  \* the time resetInactivityTimer ran last
  sessionStart,  \* the time startSession ran last
  otp,           \* EmailVerification: the code typed in (React state)
  error,         \* EmailVerification: the error shown, '' for none
  twoFactorSwitch  \* AuthenticatorSettings: twoFactorEnabled (React state)

server == <<now, users, otps, otpSeq, inflight, last, accepted>>
cache == <<lastSet, lastGet, lastCall>>
app == <<currentView, userEmail, timers, timeoutId, listeners, clock,
         lastEvent, lastActivity, sessionStart, otp, error, twoFactorSwitch>>
\* The page but for the settings view and the event handled last.
page == <<localStorage, lastSet, lastGet, lastCall,
          currentView, userEmail, timers, timeoutId, listeners, clock,
          lastActivity, sessionStart, otp, error>>
client == <<localStorage, lastSet, lastGet, lastCall,
            currentView, userEmail, timers, timeoutId, listeners, clock,
            lastEvent, lastActivity, sessionStart, otp, error, twoFactorSwitch>>
vars == <<now, users, otps, otpSeq, inflight, last, accepted,
          localStorage, lastSet, lastGet, lastCall,
          currentView, userEmail, timers, timeoutId, listeners, clock,
          lastEvent, lastActivity, sessionStart, otp, error, twoFactorSwitch>>

\* ------------------------------------------------------------ collections
Min(S) == CHOOSE x \in S : \A y \in S : x <= y

\* User.findOne({ email }): the _id (index) of the account, 0 for null.
FindUserByEmail(email) ==
  LET M == {i \in 1..Len(users) : users[i].email = email}
  IN IF M = {} THEN 0 ELSE Min(M)

\* User.findById(id): 0 for null.
FindUserById(id) ==
  IF id \in 1..Len(users) THEN id ELSE 0

\* The lookup without the purpose filter.
FindOneOTP_anyPurpose(email, code, purpose) ==
  LET M == {i \in 1..Len(otps) :
              /\ otps[i].email = email
              /\ otps[i].code = code
              /\ otps[i].isUsed = FALSE}
  IN IF M = {} THEN 0 ELSE Min(M)

\* The lookup without the isUsed filter.
FindOneOTP_anyUse(email, code, purpose) ==
  LET M == {i \in 1..Len(otps) :
              /\ otps[i].email = email
              /\ otps[i].code = code
              /\ otps[i].purpose = purpose}
  IN IF M = {} THEN 0 ELSE Min(M)

\* OTP.findOne({ email, code, purpose, isUsed: false }): the position of the
\* first matching document in natural order, 0 for null.
FindOneOTP(email, code, purpose) ==
  LET M == {i \in 1..Len(otps) :
              /\ otps[i].email = email
              /\ otps[i].code = code
              /\ otps[i].purpose = purpose
              /\ otps[i].isUsed = FALSE}
  IN IF M = {} THEN 0 ELSE Min(M)

\* The position of the document with this _id, 0 when it is gone.
OtpIndexById(id) ==
  LET M == {i \in 1..Len(otps) : otps[i].id = id}
  IN IF M = {} THEN 0 ELSE Min(M)

\* otpRecord.expiresAt < new Date()
OtpExpired(otpRecord) ==
  otpRecord.expiresAt < now

\* OTP.create(...): isUsed defaults to false, userId to ''.  The field wins
\* (the session tokens returned for this document) is history, not stored
\* by the code.
NewOTP(userId, code, email, purpose) ==
  [id |-> otpSeq + 1, userId |-> userId, code |-> code, email |-> email,
   expiresAt |-> now + OTP_TTL, isUsed |-> FALSE, purpose |-> purpose,
   wins |-> 0]

\* The match on the identifier alone.
TrustedDeviceMatch_anyExpiry(user, deviceId) ==
  \E i \in 1..Len(user.trustedDevices) :
    user.trustedDevices[i].deviceId = deviceId

\* The match over the trusted devices of every account.
TrustedDeviceMatch_anyAccount(user, deviceId) ==
  \E id \in 1..Len(users) :
    \E i \in 1..Len(users[id].trustedDevices) :
      /\ users[id].trustedDevices[i].deviceId = deviceId
      /\ users[id].trustedDevices[i].expiresAt > now

\* d.deviceId === deviceId && d.expiresAt > now, over user.trustedDevices
TrustedDeviceMatch(user, deviceId) ==
  \E i \in 1..Len(user.trustedDevices) :
    /\ user.trustedDevices[i].deviceId = deviceId
    /\ user.trustedDevices[i].expiresAt > now

\* user.trustedDevices.some(d => d.deviceId === deviceId)
DeviceExists(user, deviceId) ==
  \E i \in 1..Len(user.trustedDevices) :
    user.trustedDevices[i].deviceId = deviceId

\* ------------------------------------------------------------------ tokens
generateToken(userId, email) ==
  [userId |-> userId, email |-> email, preAuth |-> FALSE,
   exp |-> now + SESSION_TTL, sig |-> JWT_SECRET]

generatePreAuthToken(userId, email) ==
  [userId |-> userId, email |-> email, preAuth |-> TRUE,
   exp |-> now + PREAUTH_TTL, sig |-> JWT_SECRET]

\* jwt.verify with the expiry ignored.
verifyToken_noExpiry(token) ==
  IF token.sig = JWT_SECRET THEN token ELSE NoToken

\* jwt.verify: the signature and the expiry, nothing else; null is NoToken.
verifyToken(token) ==
  IF token.sig = JWT_SECRET /\ now < token.exp THEN token ELSE NoToken

\* --------------------------------------------------------------- responses
Response(status, message) ==
  [status |-> status, message |-> message, token |-> NoToken,
   preAuthToken |-> NoToken, requiresOTP |-> FALSE,
   requiresVerification |-> FALSE, userId |-> 0, otpId |-> 0,
   mailed |-> "none"]

\* A handler that returns before it writes anything.
Reply(res) ==
  [users |-> users, otps |-> otps, otpSeq |-> otpSeq, res |-> res]

\* What last keeps of a request: the e-mail, the code and the deviceId of
\* the body and the bearer token of the header.
NoRequest ==
  [email |-> Undefined, code |-> Undefined, deviceId |-> Undefined,
   auth |-> NoToken]

\* User.create(...) of verifySignupOTP: twoFactorEnabled true, no trusted
\* device (the schema's default).
NewUser(email, password) ==
  [email |-> email, password |-> hashPassword(password),
   twoFactorEnabled |-> TRUE, trustedDevices |-> <<>>]

\* A request slot of SpecConc and SpecDevice with no request in it.
IdleRequest ==
  [pc |-> "idle", deviceId |-> Undefined, rememberDevice |-> FALSE, otpId |-> 0,
   userId |-> 0, expiresAt |-> 0]

\* ------------------------------------------------- the client's secure storage
\* A string is the sequence of its UTF-16 code units.  null is Null, which
\* no string equals.
Null == <<-1>>

\* 'ewallet-secret-2024', the default of VITE_ENCRYPTION_KEY.
SECRET_KEY ==
  <<101, 119, 97, 108, 108, 101, 116, 45, 115, 101, 99, 114, 101, 116, 45,
    50, 48, 50, 52>>

SENSITIVE_KEYS ==
  {"authToken", "userEmail", "preAuthToken", "deviceId", "cardData",
   "walletData", "personalInfo", "transactionDetails"}

\* The keys the calls are drawn from: two sensitive ones and the view name,
\* which is stored as it is.
CacheKeys == {"authToken", "deviceId", "currentView"}

\* The localStorage key of a sensitive entry.
EncryptedKey(key) == "encrypted_" \o key

\* The keys the App and its components read and write.
AppKeys ==
  {"authToken", "userEmail", "preAuthToken", "deviceId", "currentView",
   "rememberedEmail", "pendingSignupData", "trustedDevice"}

StorageKeys ==
  (CacheKeys \cup AppKeys)
    \cup {EncryptedKey(key) : key \in CacheKeys \cup AppKeys}

\* The values the calls are drawn from: '', 'a', 'aa', ... up to MaxLen
\* letters, the euro sign (a code unit above 255), the secret, and a string
\* that contains the secret.
CacheValues ==
  {[i \in 1..n |-> 97] : n \in 0..MaxLen}
    \cup {<<8364>>, SECRET_KEY, <<97>> \o SECRET_KEY \o <<97>>}

\* The base64 alphabet: the character of a sextet, the sextet of a
\* character (-1: not in the alphabet).
B64Char(n) ==
  IF n < 26 THEN 65 + n
  ELSE IF n < 52 THEN 97 + (n - 26)
  ELSE IF n < 62 THEN 48 + (n - 52)
  ELSE IF n = 62 THEN 43 ELSE 47

B64Val(c) ==
  IF c >= 65 /\ c <= 90 THEN c - 65
  ELSE IF c >= 97 /\ c <= 122 THEN c - 97 + 26
  ELSE IF c >= 48 /\ c <= 57 THEN c - 48 + 52
  ELSE IF c = 43 THEN 62
  ELSE IF c = 47 THEN 63 ELSE -1

\* What a call that may throw gives: a value, or the exception.
Returned(val) == [threw |-> FALSE, val |-> val]
Threw == [threw |-> TRUE, val |-> Null]

RECURSIVE B64Encode(_)
B64Encode(s) ==
  IF Len(s) = 0 THEN <<>>
  ELSE IF Len(s) = 1
  THEN <<B64Char(s[1] \div 4), B64Char((s[1] % 4) * 16), 61, 61>>
  ELSE IF Len(s) = 2
  THEN <<B64Char(s[1] \div 4), B64Char((s[1] % 4) * 16 + s[2] \div 16),
         B64Char((s[2] % 16) * 4), 61>>
  ELSE <<B64Char(s[1] \div 4), B64Char((s[1] % 4) * 16 + s[2] \div 16),
         B64Char((s[2] % 16) * 4 + s[3] \div 64), B64Char(s[3] % 64)>>
         \o B64Encode(SubSeq(s, 4, Len(s)))

\* window.btoa: InvalidCharacterError on a code unit above 255.
btoa(s) ==
  IF \E i \in 1..Len(s) : s[i] > 255 THEN Threw
  ELSE Returned(B64Encode(s))

\* The bytes of a sequence of sextets; the bits left over are dropped.
RECURSIVE B64Decode(_)
B64Decode(v) ==
  IF Len(v) < 2 THEN <<>>
  ELSE IF Len(v) = 2 THEN <<v[1] * 4 + v[2] \div 16>>
  ELSE IF Len(v) = 3
  THEN <<v[1] * 4 + v[2] \div 16, (v[2] % 16) * 16 + v[3] \div 4>>
  ELSE <<v[1] * 4 + v[2] \div 16, (v[2] % 16) * 16 + v[3] \div 4,
         (v[3] % 4) * 64 + v[4]>> \o B64Decode(SubSeq(v, 5, Len(v)))

IsAsciiWhitespace(c) == c \in {9, 10, 12, 13, 32}

\* window.atob (forgiving-base64 decode): ASCII whitespace is removed, one
\* or two '=' are taken off an input whose length is a multiple of four, and
\* a length of 4n+1 or a character outside the alphabet is an
\* InvalidCharacterError.
atob(s) ==
  LET t == SelectSeq(s, LAMBDA c : ~IsAsciiWhitespace(c))
      n == Len(t)
      pad == IF n % 4 # 0 \/ n = 0 THEN 0
             ELSE IF t[n] = 61 /\ t[n - 1] = 61 THEN 2
             ELSE IF t[n] = 61 THEN 1 ELSE 0
      u == SubSeq(t, 1, n - pad)
  IN IF Len(u) % 4 = 1 \/ \E i \in 1..Len(u) : B64Val(u[i]) = -1
     THEN Threw
     ELSE Returned(B64Decode([i \in 1..Len(u) |-> B64Val(u[i])]))

\* a ^ b on non-negative integers.
RECURSIVE Xor(_, _)
Xor(a, b) ==
  IF a = 0 THEN b
  ELSE IF b = 0 THEN a
  ELSE (((a % 2) + (b % 2)) % 2) + (2 * Xor(a \div 2, b \div 2))

\* The loop of encryptData and of decryptData: each code unit XORed with the
\* secret's, the secret cycling.
XorCipher(s) ==
  [i \in 1..Len(s) |->
     Xor(s[i], SECRET_KEY[((i - 1) % Len(SECRET_KEY)) + 1])]

\* encryptData: btoa, XOR, btoa; the catch block returns the data as it came.
encryptData(data) ==
  LET encoded == btoa(data)
  IN IF encoded.threw THEN data
     ELSE LET result == btoa(XorCipher(encoded.val))
          IN IF result.threw THEN data ELSE result.val

\* decryptData: atob, XOR, atob; the catch block returns the input.
decryptData(encryptedData) ==
  LET encrypted == atob(encryptedData)
  IN IF encrypted.threw THEN encryptedData
     ELSE LET result == atob(XorCipher(encrypted.val))
          IN IF result.threw THEN encryptedData ELSE result.val

\* secureStorage.setItem on the storage store, for a string value.
setItem(store, key, value) ==
  IF key \in SENSITIVE_KEYS
  THEN [store EXCEPT ![EncryptedKey(key)] = encryptData(value),
                     ![key] = Null]
  ELSE [store EXCEPT ![key] = value]

\* secureStorage.getItem: !encrypted holds for null and for ''.
getItem(store, key) ==
  IF key \in SENSITIVE_KEYS
  THEN LET encrypted == store[EncryptedKey(key)]
       IN IF encrypted = Null \/ encrypted = <<>> THEN Null
          ELSE decryptData(encrypted)
  ELSE store[key]

removeItem(store, key) ==
  IF key \in SENSITIVE_KEYS
  THEN [store EXCEPT ![EncryptedKey(key)] = Null]
  ELSE [store EXCEPT ![key] = Null]

\* clear without its last statement, localStorage.clear().
clear_sensitiveOnly(store) ==
  [k \in DOMAIN store |->
     IF \E key \in SENSITIVE_KEYS : k = EncryptedKey(key)
     THEN Null ELSE store[k]]

\* secureStorage.clear ends with localStorage.clear().
clear(store) ==
  [k \in DOMAIN store |-> Null]

\* secureStorage.hasItem
hasItem(store, key) ==
  IF key \in SENSITIVE_KEYS
  THEN store[EncryptedKey(key)] # Null
  ELSE store[key] # Null

\* Stored texts that no setItem wrote: '!!' (not base64) and 'YQ==' (base64,
\* but not of a text that the XOR turns into base64).
CorruptTexts == {<<33, 33>>, <<89, 81, 61, 61>>}

\* ------------------------------------------------------- the session monitor
\* window.setTimeout returns an id that no pending timeout and no id still
\* held has.
FreshTimerId(pending, held) ==
  Min({i \in 1..(Cardinality(pending) + 2) :
         i # held /\ \A t \in pending : t.id # i})

\* clearTimeout(id)
clearTimeout(pending, id) ==
  {t \in pending : t.id # id}

\* resetInactivityTimer that sets a timeout without clearing the old one.
resetInactivityTimer_noClear(s) ==
  LET id == FreshTimerId(s.timers, s.timeoutId)
  IN [s EXCEPT !.timers = s.timers \cup
                    {[id |-> id, at |-> clock + TIMEOUT_DURATION]},
               !.timeoutId = id]

\* resetInactivityTimer that leaves a pending timeout as it is.
resetInactivityTimer_keepPending(s) ==
  IF s.timers # {} THEN s
  ELSE LET id == FreshTimerId(s.timers, s.timeoutId)
       IN [s EXCEPT !.timers = {[id |-> id, at |-> clock + TIMEOUT_DURATION]},
                    !.timeoutId = id]

\* SessionManager.resetInactivityTimer on the page state s: the old timeout
\* is cleared, a new one is set TIMEOUT_DURATION ahead.
resetInactivityTimer(s) ==
  LET pending == IF s.timeoutId # 0
                 THEN clearTimeout(s.timers, s.timeoutId) ELSE s.timers
      id == FreshTimerId(pending, s.timeoutId)
  IN [s EXCEPT !.timers = pending \cup
                    {[id |-> id, at |-> clock + TIMEOUT_DURATION]},
               !.timeoutId = id]

\* SessionManager.startSession: the timer is reset and four listeners are
\* added to the document; nothing removes them.
startSession(s) ==
  [resetInactivityTimer(s) EXCEPT !.listeners = @ + 1, !.started = TRUE]

\* One activity event: every registered listener resets the timer.
RECURSIVE activity(_, _)
activity(s, n) ==
  IF n = 0 THEN s ELSE activity(resetInactivityTimer(s), n - 1)

\* ------------------------------------------------------------------ the App
\* The values the client handles: the user's e-mail 'a', the session token
\* 't', the pre-auth token 'p', the generated device id 'd', and the JSON
\* texts written for the pending signup and the trusted device, '{a}'.
TheEmail == <<97>>
SessionJwt == <<116>>
PreAuthJwt == <<112>>
DeviceUuid == <<100>>
JsonOfEmail == <<123, 97, 125>>

Views ==
  {"login", "signup", "verify-signup", "verify-login", "success", "dashboard"}

\* The text of a view's name, as localStorage keeps it.
ViewName(view) ==
  CASE view = "login" -> <<108, 111, 103, 105, 110>>
    [] view = "signup" -> <<115, 105, 103, 110, 117, 112>>
    [] view = "verify-signup" ->
         <<118, 101, 114, 105, 102, 121, 45, 115, 105, 103, 110, 117, 112>>
    [] view = "verify-login" ->
         <<118, 101, 114, 105, 102, 121, 45, 108, 111, 103, 105, 110>>
    [] view = "success" -> <<115, 117, 99, 99, 101, 115, 115>>
    [] view = "dashboard" -> <<100, 97, 115, 104, 98, 111, 97, 114, 100>>

\* A string that JavaScript takes for true: not null, not ''.
Truthy(x) == x # Null /\ x # <<>>

\* The views that render EmailVerification.
VerifyViews == {"verify-signup", "verify-login"}

\* What the user can have typed into the six slots of InputOTP: five or six
\* times the digit '1'.
OtpInputs == {<<49, 49, 49, 49, 49>>, <<49, 49, 49, 49, 49, 49>>}

\* The messages of the server's rejections of a verification, which apiCall
\* throws as errors.
Rejections == {"Invalid OTP code", "OTP has expired"}

\* The page as the handlers see it.
Page ==
  [localStorage |-> localStorage, currentView |-> currentView,
   userEmail |-> userEmail, timers |-> timers, timeoutId |-> timeoutId,
   listeners |-> listeners, started |-> FALSE, otp |-> otp, error |-> error]

\* A page that has just been loaded over the store: no timeout, no listener,
\* the state of App as useState initialises it.
FreshPage(store) ==
  [localStorage |-> store, currentView |-> "login",
   userEmail |-> IF Truthy(getItem(store, "userEmail"))
                 THEN getItem(store, "userEmail") ELSE <<>>,
   timers |-> {}, timeoutId |-> 0, listeners |-> 0, started |-> FALSE,
   otp |-> <<>>, error |-> ""]

\* The effect on [currentView, userEmail]: both are written to localStorage
\* under their plain names.
persist(s) ==
  [s EXCEPT !.localStorage =
     [@ EXCEPT !["currentView"] = ViewName(s.currentView),
               !["userEmail"] = s.userEmail]]

\* checkAuthStatus that shows the dashboard whenever a token and an e-mail
\* are cached, without waiting for the server's answer.
checkAuthStatus_trustsCache(store, profileOk) ==
  LET s == FreshPage(store)
      authToken == getItem(store, "authToken")
      savedEmail == getItem(store, "userEmail")
      shown == persist(s)
  IN IF Truthy(authToken) /\ Truthy(savedEmail)
     THEN persist(startSession([shown EXCEPT !.userEmail = savedEmail,
                                             !.currentView = "dashboard"]))
     ELSE shown

\* App on mount: checkAuthStatus reads the token and the e-mail, asks the
\* server for the profile (profileOk: it answered 2xx) and shows the
\* dashboard or the login view.
checkAuthStatus(store, profileOk) ==
  LET s == FreshPage(store)
      authToken == getItem(store, "authToken")
      savedEmail == getItem(store, "userEmail")
      shown == persist(s)
  IN IF Truthy(authToken) /\ Truthy(savedEmail)
     THEN IF profileOk
          THEN persist(startSession([shown EXCEPT !.userEmail = savedEmail,
                                                  !.currentView = "dashboard"]))
          ELSE [shown EXCEPT !.localStorage =
                  removeItem(removeItem(removeItem(@, "authToken"),
                                        "currentView"), "userEmail")]
     ELSE shown

\* handleLoginAttempt that shows the dashboard without looking for a token.
handleLoginAttempt_noTokenTest(s, email) ==
  persist([startSession([s EXCEPT !.userEmail = email])
             EXCEPT !.currentView = "dashboard"])

\* App.handleLoginAttempt
handleLoginAttempt(s, email) ==
  LET t == [s EXCEPT !.userEmail = email]
  IN IF Truthy(getItem(t.localStorage, "authToken"))
     THEN persist([startSession(t) EXCEPT !.currentView = "dashboard"])
     ELSE persist([t EXCEPT !.currentView = "verify-login"])

\* Login.handleSubmit; outcome: what authAPI.login gave ("error": it threw).
handleSubmit(s, email, rememberMe, outcome) ==
  LET s1 == IF Truthy(getItem(s.localStorage, "deviceId")) THEN s
            ELSE [s EXCEPT !.localStorage = setItem(@, "deviceId", DeviceUuid)]
      s2 == [s1 EXCEPT !.localStorage =
               [@ EXCEPT !["rememberedEmail"] =
                  IF rememberMe THEN email ELSE Null]]
  IN IF outcome = "error" THEN s1
     ELSE IF outcome = "requiresOTP"
     THEN handleLoginAttempt(
            [s2 EXCEPT !.localStorage = setItem(@, "preAuthToken", PreAuthJwt)],
            email)
     ELSE handleLoginAttempt(
            [s2 EXCEPT !.localStorage =
               setItem(setItem(@, "authToken", SessionJwt), "userEmail", email)],
            email)

\* SignUp.handleSubmit after authAPI.signup returned.
handleSignUp(s, email) ==
  persist([s EXCEPT !.localStorage =
                      [@ EXCEPT !["pendingSignupData"] = JsonOfEmail],
                    !.userEmail = email,
                    !.currentView = "verify-signup"])

\* handleVerify whose catch block shows the error and keeps the code.
handleVerify_keepsCode(s, rememberDevice, next, outcome) ==
  LET stored == setItem(setItem(s.localStorage, "authToken", SessionJwt),
                        "userEmail", s.userEmail)
      trusted == IF rememberDevice
                 THEN [stored EXCEPT !["trustedDevice"] = JsonOfEmail]
                 ELSE stored
  IN IF Len(s.otp) # 6
     THEN [s EXCEPT !.error = "Please enter the complete verification code"]
     ELSE IF outcome \in Rejections
     THEN [s EXCEPT !.error = outcome]
     ELSE persist([s EXCEPT !.localStorage =
                              [trusted EXCEPT !["pendingSignupData"] = Null],
                            !.currentView = next,
                            !.error = ""])

\* EmailVerification.handleVerify; outcome: "token" (the server returned a
\* session token) or the message of the error apiCall threw; next: the view
\* onVerified shows.
handleVerify(s, rememberDevice, next, outcome) ==
  LET stored == setItem(setItem(s.localStorage, "authToken", SessionJwt),
                        "userEmail", s.userEmail)
      trusted == IF rememberDevice
                 THEN [stored EXCEPT !["trustedDevice"] = JsonOfEmail]
                 ELSE stored
  IN IF Len(s.otp) # 6
     THEN [s EXCEPT !.error = "Please enter the complete verification code"]
     ELSE IF outcome \in Rejections
     THEN [s EXCEPT !.error = outcome, !.otp = <<>>]
     ELSE persist([s EXCEPT !.localStorage =
                              [trusted EXCEPT !["pendingSignupData"] = Null],
                            !.currentView = next,
                            !.error = ""])

\* EmailVerification.handleResend; outcome: "sent", or the message of the
\* error authAPI.signup threw (a login code is not sent again: the branch
\* only logs).
handleResend(s, outcome) ==
  IF outcome = "sent" THEN [s EXCEPT !.error = "", !.otp = <<>>]
  ELSE [s EXCEPT !.error = outcome]

\* App.handleLogout, and the effect that follows its two state changes.
handleLogout(s) ==
  persist([s EXCEPT !.userEmail = <<>>,
                    !.currentView = "login",
                    !.localStorage =
                      removeItem(removeItem(removeItem(@, "currentView"),
                                            "userEmail"), "authToken")])

\* SessionManager.endSession up to the navigation: the timeout is cleared
\* and two entries are removed.
endSession(s) ==
  [s EXCEPT !.timers = IF s.timeoutId # 0
                       THEN clearTimeout(@, s.timeoutId) ELSE @,
            !.localStorage = removeItem(removeItem(@, "authToken"),
                                        "userEmail")]

NoCall == [key |-> "", value |-> Null]

\* A browser that has stored nothing yet.
InitClient ==
  /\ localStorage = [k \in StorageKeys |-> Null]
  /\ lastSet = NoCall
  /\ lastGet = [key |-> "", result |-> Null, after |-> NoCall]
  /\ lastCall = "none"
  /\ currentView = "login"
  /\ userEmail = <<>>
  /\ timers = {}
  /\ timeoutId = 0
  /\ listeners = 0
  /\ clock = 0
  /\ lastEvent = "none"
  /\ lastActivity = 0
  /\ sessionStart = 0
  /\ otp = <<>>
  /\ error = ""
  /\ twoFactorSwitch = TRUE

\* The database outlives the server process: a run starts on an empty
\* database, or on one that holds an account registered earlier (its signup
\* code long removed by the TTL index).
Init ==
  /\ now = 0
  /\ users \in {<<>>, <<NewUser("ann", "pw1")>>}
  /\ otps = <<>>
  /\ otpSeq = 0
  /\ inflight = [r \in 1..MaxInflight |-> IdleRequest]
  /\ last = [op |-> "none", req |-> NoRequest, res |-> Response(0, "")]
  /\ accepted = {}
  /\ InitClient

\* The handler's writes and its response take effect.
Respond(op, req, r) ==
  /\ users' = r.users
  /\ otps' = r.otps
  /\ otpSeq' = r.otpSeq
  /\ last' = [op |-> op, req |-> req, res |-> r.res]
  /\ UNCHANGED client

\* ------------------------------------------------------------------ signup
\* The account written by the signup request itself.
signup_createsAccount(email, password, firstName, lastName, otpCode, emailSent) ==
  IF \/ email = Undefined \/ password = Undefined
     \/ firstName = Undefined \/ lastName = Undefined
  THEN Reply(Response(400, "All fields are required"))
  ELSE IF FindUserByEmail(toLowerCase(email)) # 0
  THEN Reply(Response(400, "Email already registered"))
  ELSE
    [users |-> Append(users, NewUser(toLowerCase(email), password)),
     otps |-> Append(otps, NewOTP(0, otpCode, toLowerCase(email), "signup")),
     otpSeq |-> otpSeq + 1,
     res |-> IF ~emailSent
             THEN [Response(500, "Failed to send OTP email") EXCEPT !.mailed = "failed"]
             ELSE [Response(200, "OTP sent to your email") EXCEPT
                     !.requiresVerification = TRUE, !.mailed = "sent"]]

signup(email, password, firstName, lastName, otpCode, emailSent) ==
  IF \/ email = Undefined \/ password = Undefined
     \/ firstName = Undefined \/ lastName = Undefined
  THEN Reply(Response(400, "All fields are required"))
  ELSE IF FindUserByEmail(toLowerCase(email)) # 0
  THEN Reply(Response(400, "Email already registered"))
  ELSE
    [users |-> users,
     otps |-> Append(otps, NewOTP(0, otpCode, toLowerCase(email), "signup")),
     otpSeq |-> otpSeq + 1,
     res |-> IF ~emailSent
             THEN [Response(500, "Failed to send OTP email") EXCEPT !.mailed = "failed"]
             ELSE [Response(200, "OTP sent to your email") EXCEPT
                     !.requiresVerification = TRUE, !.mailed = "sent"]]

\* generateOTPCode and sendOTPEmail are only called, and so only drawn, on
\* the path that creates a code.  The codes are interchangeable: the first
\* one ever drawn is named 111111, the next may repeat it or differ.
Signup ==
  \E email \in Emails \cup {Undefined}, password \in {"pw1", Undefined},
     name \in Names \cup {Undefined} :
  \E otpCode \in Codes, emailSent \in BOOLEAN :
    LET r == signup(email, password, name, name, otpCode, emailSent)
    IN /\ r.otpSeq <= MaxOtps
       /\ r.otpSeq = otpSeq => otpCode = "111111" /\ emailSent
       /\ otpSeq = 0 => otpCode = "111111"
       /\ Respond("signup", [NoRequest EXCEPT !.email = email], r)
       /\ UNCHANGED <<now, inflight, accepted>>

\* --------------------------------------------------------- verifySignupOTP
\* otpRecord.isUsed = true; await otpRecord.save(): the document at
\* position i of otps is written back.
MarkUsed(i) ==
  [otps EXCEPT ![i].isUsed = TRUE]

\* User.create on a collection without the unique index on email.
verifySignupCreate_noUnique(i, email, firstName, lastName, password) ==
  IF password = Undefined \/ firstName = Undefined \/ lastName = Undefined
  THEN [users |-> users, otps |-> MarkUsed(i), otpSeq |-> otpSeq,
        res |-> [Response(500, "Internal server error") EXCEPT
                   !.otpId = otps[i].id]]
  ELSE
    LET newUsers == Append(users, NewUser(toLowerCase(email), password))
        id == Len(newUsers)
    IN [users |-> newUsers,
        otps |-> [MarkUsed(i) EXCEPT ![i].wins = @ + 1],
        otpSeq |-> otpSeq,
        res |-> [Response(201, "Account created successfully") EXCEPT
                   !.token = generateToken(id, toLowerCase(email)),
                   !.userId = id, !.otpId = otps[i].id]]

\* What follows the save: hashPassword throws on a missing password and
\* User.create on a missing name or on an e-mail the unique index already
\* holds; the catch block answers 500.  The wallet is out of scope.
verifySignupCreate(i, email, firstName, lastName, password) ==
  IF \/ password = Undefined \/ firstName = Undefined \/ lastName = Undefined
     \/ FindUserByEmail(toLowerCase(email)) # 0
  THEN [users |-> users, otps |-> MarkUsed(i), otpSeq |-> otpSeq,
        res |-> [Response(500, "Internal server error") EXCEPT
                   !.otpId = otps[i].id]]
  ELSE
    LET newUsers == Append(users, NewUser(toLowerCase(email), password))
        id == Len(newUsers)
    IN [users |-> newUsers,
        otps |-> [MarkUsed(i) EXCEPT ![i].wins = @ + 1],
        otpSeq |-> otpSeq,
        res |-> [Response(201, "Account created successfully") EXCEPT
                   !.token = generateToken(id, toLowerCase(email)),
                   !.userId = id, !.otpId = otps[i].id]]

verifySignupOTP(email, code, firstName, lastName, password) ==
  IF email = Undefined \/ code = Undefined
  THEN Reply(Response(400, "Email and OTP code are required"))
  ELSE
    LET i == FindOneOTP(toLowerCase(email), code, "signup")
    IN IF i = 0 THEN Reply(Response(400, "Invalid OTP code"))
       ELSE IF OtpExpired(otps[i]) THEN Reply(Response(400, "OTP has expired"))
       ELSE verifySignupCreate(i, email, firstName, lastName, password)

\* The fields a request does not get to read take one value only.
VerifySignupOTP ==
  \E email \in Emails \cup {Undefined}, code \in Codes \cup {Undefined},
     name \in Names \cup {Undefined}, password \in {"pw1", Undefined} :
    LET r == verifySignupOTP(email, code, name, name, password)
    IN /\ r.res.otpId = 0 => name = "Ann" /\ password = "pw1"
       /\ Respond("verifySignupOTP",
                  [NoRequest EXCEPT !.email = email, !.code = code], r)
       /\ UNCHANGED <<now, inflight, accepted>>

\* ------------------------------------------------------------------- login
\* The trusted-device block: a session token without a code.
loginTrusted(id) ==
  Reply([Response(200, "Login successful (trusted device)") EXCEPT
           !.token = generateToken(id, users[id].email), !.userId = id])

\* The challenge answered with a session token next to the pre-auth token.
loginChallenge_withToken(id, otpCode, emailSent) ==
  [users |-> users,
   otps |-> Append(otps, NewOTP(id, otpCode, users[id].email, "login")),
   otpSeq |-> otpSeq + 1,
   res |-> IF ~emailSent
           THEN [Response(500, "Failed to send OTP email") EXCEPT
                   !.mailed = "failed"]
           ELSE [Response(200, "OTP sent to your email") EXCEPT
                   !.requiresOTP = TRUE, !.userId = id, !.mailed = "sent",
                   !.token = generateToken(id, users[id].email),
                   !.preAuthToken = generatePreAuthToken(id, users[id].email)]]

\* The twoFactorEnabled block: create the code, mail it, answer with the
\* pre-auth token.
loginChallenge(id, otpCode, emailSent) ==
  [users |-> users,
   otps |-> Append(otps, NewOTP(id, otpCode, users[id].email, "login")),
   otpSeq |-> otpSeq + 1,
   res |-> IF ~emailSent
           THEN [Response(500, "Failed to send OTP email") EXCEPT
                   !.mailed = "failed"]
           ELSE [Response(200, "OTP sent to your email") EXCEPT
                   !.requiresOTP = TRUE, !.userId = id, !.mailed = "sent",
                   !.preAuthToken = generatePreAuthToken(id, users[id].email)]]

\* The challenge also for an account that switched two-factor off.
loginDirect_viaChallenge(id) ==
  loginChallenge(id, "111111", TRUE)

\* 2FA disabled: the token directly.
loginDirect(id) ==
  Reply([Response(200, "Login successful") EXCEPT
           !.token = generateToken(id, users[id].email), !.userId = id])

\* An answer that tells an unknown address from a wrong password.
loginUnknownEmail_reveal ==
  Reply(Response(404, "User not found"))

\* if (!user) return ...
loginUnknownEmail ==
  Reply(Response(400, "Invalid email or password"))

\* if (!passwordMatch) return ...
loginWrongPassword ==
  Reply(Response(400, "Invalid email or password"))

\* login that lets a trusted device in before it compares the password.
login_deviceBeforePassword(email, password, deviceId, otpCode, emailSent) ==
  IF email = Undefined \/ password = Undefined
  THEN Reply(Response(400, "Email and password are required"))
  ELSE
    LET id == FindUserByEmail(toLowerCase(email))
    IN IF id = 0 THEN loginUnknownEmail
       ELSE IF /\ users[id].twoFactorEnabled
               /\ deviceId # Undefined
               /\ TrustedDeviceMatch(users[id], deviceId)
       THEN loginTrusted(id)
       ELSE IF ~comparePassword(password, users[id].password)
       THEN loginWrongPassword
       ELSE IF users[id].twoFactorEnabled
       THEN loginChallenge(id, otpCode, emailSent)
       ELSE loginDirect(id)

login(email, password, deviceId, otpCode, emailSent) ==
  IF email = Undefined \/ password = Undefined
  THEN Reply(Response(400, "Email and password are required"))
  ELSE
    LET id == FindUserByEmail(toLowerCase(email))
    IN IF id = 0 THEN loginUnknownEmail
       ELSE IF ~comparePassword(password, users[id].password)
       THEN loginWrongPassword
       ELSE IF /\ users[id].twoFactorEnabled
               /\ deviceId # Undefined
               /\ TrustedDeviceMatch(users[id], deviceId)
       THEN loginTrusted(id)
       ELSE IF users[id].twoFactorEnabled
       THEN loginChallenge(id, otpCode, emailSent)
       ELSE loginDirect(id)

\* The accounts whose e-mail and password a login request presents.
PasswordHolders(email, password) ==
  {id \in 1..Len(users) :
     /\ email # Undefined
     /\ password # Undefined
     /\ users[id].email = toLowerCase(email)
     /\ comparePassword(password, users[id].password)}

Login ==
  \E email \in Emails \cup Strangers \cup {Undefined}, password \in Passwords \cup {Undefined},
     deviceId \in DeviceIds \cup {Undefined} :
  \E otpCode \in Codes, emailSent \in BOOLEAN :
    LET r == login(email, password, deviceId, otpCode, emailSent)
    IN /\ r.otpSeq <= MaxOtps
       /\ r.otpSeq = otpSeq => otpCode = "111111" /\ emailSent
       /\ otpSeq = 0 => otpCode = "111111"
       /\ r.res.userId = 0 => deviceId = Undefined
       /\ Respond("login",
                  [NoRequest EXCEPT !.email = email, !.deviceId = deviceId], r)
       /\ accepted' = accepted \cup PasswordHolders(email, password)
       /\ UNCHANGED <<now, inflight>>

\* ---------------------------------------------------------- verifyLoginOTP
\* The first part, up to the expiry check: the error response, or the _id
\* of the document found (res.status 0: the handler goes on).
verifyLoginFind(email, code) ==
  IF email = Undefined \/ code = Undefined
  THEN Response(400, "Email and OTP code are required")
  ELSE
    LET i == FindOneOTP(toLowerCase(email), code, "login")
    IN IF i = 0 THEN Response(400, "Invalid OTP code")
       ELSE IF OtpExpired(otps[i]) THEN Response(400, "OTP has expired")
       ELSE [Response(0, "") EXCEPT !.otpId = otps[i].id]

\* if (rememberDevice && deviceId) { ... push unless some record has this
\* deviceId ... }
registerDevice(user, deviceId, rememberDevice) ==
  IF rememberDevice /\ deviceId # Undefined /\ ~DeviceExists(user, deviceId)
  THEN [user EXCEPT !.trustedDevices =
          Append(@, [deviceId |-> deviceId, expiresAt |-> now + DEVICE_TTL])]
  ELSE user

\* The second part, from the save on, for the document with _id otpId as
\* the database holds it now.  save() of a document that is gone throws
\* (DocumentNotFoundError), and the catch block answers 500.
verifyLoginFinish(otpId, deviceId, rememberDevice) ==
  LET i == OtpIndexById(otpId)
  IN IF i = 0 THEN Reply(Response(500, "Internal server error"))
     ELSE
       LET id == FindUserById(otps[i].userId)
       IN IF id = 0
          THEN [users |-> users, otps |-> MarkUsed(i), otpSeq |-> otpSeq,
                res |-> [Response(400, "User not found") EXCEPT !.otpId = otpId]]
          ELSE [users |-> [users EXCEPT ![id] =
                             registerDevice(@, deviceId, rememberDevice)],
                otps |-> [MarkUsed(i) EXCEPT ![i].wins = @ + 1],
                otpSeq |-> otpSeq,
                res |-> [Response(200, "Login successful") EXCEPT
                           !.token = generateToken(id, users[id].email),
                           !.userId = id, !.otpId = otpId]]

\* The whole handler, run without another request in between.
verifyLoginOTP(email, code, deviceId, rememberDevice) ==
  LET f == verifyLoginFind(email, code)
  IN IF f.status # 0 THEN Reply(f)
     ELSE verifyLoginFinish(f.otpId, deviceId, rememberDevice)

\* deviceId is read only behind rememberDevice (rememberDevice && deviceId),
\* and neither is read before the code is accepted.
VerifyLoginOTP ==
  \E email \in Emails \cup {Undefined}, code \in Codes \cup {Undefined},
     deviceId \in DeviceIds \cup {Undefined}, rememberDevice \in BOOLEAN :
    LET r == verifyLoginOTP(email, code, deviceId, rememberDevice)
    IN /\ r.res.otpId = 0 => ~rememberDevice
       /\ ~rememberDevice => deviceId = Undefined
       /\ Respond("verifyLoginOTP",
                  [NoRequest EXCEPT !.email = email, !.code = code,
                                    !.deviceId = deviceId], r)
       /\ UNCHANGED <<now, inflight, accepted>>

\* SpecConc: a request takes the first free slot and runs the handler up to
\* its first database write.  Of the body it keeps what it reads later
\* (email and code are dead after the lookup).
VerifyLoginBegin(r) ==
  \E email \in Emails \cup {Undefined}, code \in Codes \cup {Undefined},
     deviceId \in DeviceIds \cup {Undefined}, rememberDevice \in BOOLEAN :
    LET f == verifyLoginFind(email, code)
    IN /\ inflight[r].pc = "idle"
       /\ \A q \in 1..(r - 1) : inflight[q].pc # "idle"
       /\ f.status # 0 => ~rememberDevice
       /\ ~rememberDevice => deviceId = Undefined
       /\ IF f.status # 0
          THEN /\ Respond("verifyLoginOTP",
                          [NoRequest EXCEPT !.email = email, !.code = code],
                          Reply(f))
               /\ UNCHANGED inflight
          ELSE /\ inflight' = [inflight EXCEPT ![r] =
                                 [IdleRequest EXCEPT
                                    !.pc = "save",
                                    !.deviceId = deviceId,
                                    !.rememberDevice = rememberDevice,
                                    !.otpId = f.otpId]]
               /\ UNCHANGED <<users, otps, otpSeq, last>>
               /\ UNCHANGED client
       /\ UNCHANGED <<now, accepted>>

\* SpecConc: slot r resumes after the await and runs to its response.
VerifyLoginEnd(r) ==
  /\ inflight[r].pc = "save"
  /\ Respond("verifyLoginOTP",
             [NoRequest EXCEPT !.deviceId = inflight[r].deviceId],
             verifyLoginFinish(inflight[r].otpId, inflight[r].deviceId,
                               inflight[r].rememberDevice))
  /\ inflight' = [inflight EXCEPT ![r] = IdleRequest]
  /\ UNCHANGED <<now, accepted>>

\* SpecDevice: a request takes the first free slot and runs the handler up
\* to its response, or, when it pushes a device record onto the user
\* document it has loaded, up to the await of user.save().
VerifyLoginLoad(r) ==
  \E email \in Emails \cup {Undefined}, code \in Codes \cup {Undefined},
     deviceId \in DeviceIds \cup {Undefined}, rememberDevice \in BOOLEAN :
    LET f == verifyLoginFind(email, code)
        i == OtpIndexById(f.otpId)
        id == IF i = 0 THEN 0 ELSE FindUserById(otps[i].userId)
    IN /\ inflight[r].pc = "idle"
       /\ \A q \in 1..(r - 1) : inflight[q].pc # "idle"
       /\ f.status # 0 => ~rememberDevice
       /\ ~rememberDevice => deviceId = Undefined
       /\ IF /\ id # 0
             /\ rememberDevice
             /\ deviceId # Undefined
             /\ ~DeviceExists(users[id], deviceId)
          THEN /\ otps' = MarkUsed(i)
               /\ inflight' = [inflight EXCEPT ![r] =
                                 [IdleRequest EXCEPT
                                    !.pc = "push",
                                    !.deviceId = deviceId,
                                    !.rememberDevice = rememberDevice,
                                    !.otpId = f.otpId,
                                    !.userId = id,
                                    !.expiresAt = now + DEVICE_TTL]]
               /\ UNCHANGED <<users, otpSeq, last>>
               /\ UNCHANGED client
          ELSE /\ Respond("verifyLoginOTP",
                          [NoRequest EXCEPT !.email = email, !.code = code,
                                            !.deviceId = deviceId],
                          verifyLoginOTP(email, code, deviceId, rememberDevice))
               /\ UNCHANGED inflight
       /\ UNCHANGED <<now, accepted>>

\* SpecDevice: user.save() of slot r takes effect and the request is
\* answered.  The document's only change is the push, which Mongoose sends
\* as a $push of the new record: it is appended to the array the database
\* holds now, whatever another request has appended since the load.
VerifyLoginSaveUser(r) ==
  /\ inflight[r].pc = "push"
  /\ LET i == OtpIndexById(inflight[r].otpId)
         id == inflight[r].userId
     IN Respond("verifyLoginOTP",
                [NoRequest EXCEPT !.deviceId = inflight[r].deviceId],
                [users |-> [users EXCEPT ![id].trustedDevices =
                              Append(@, [deviceId |-> inflight[r].deviceId,
                                         expiresAt |-> inflight[r].expiresAt])],
                 otps |-> IF i = 0 THEN otps ELSE [otps EXCEPT ![i].wins = @ + 1],
                 otpSeq |-> otpSeq,
                 res |-> [Response(200, "Login successful") EXCEPT
                            !.token = generateToken(id, users[id].email),
                            !.userId = id, !.otpId = inflight[r].otpId]])
  /\ inflight' = [inflight EXCEPT ![r] = IdleRequest]
  /\ UNCHANGED <<now, accepted>>

\* ------------------------------------------------------ protected routes
\* authMiddleware: the bearer token of the Authorization header (NoToken:
\* no header).  status 0: next() is called with req.user = decoded.
authMiddleware(auth) ==
  IF auth = NoToken THEN Response(401, "No token provided")
  ELSE IF verifyToken(auth) = NoToken THEN Response(401, "Invalid token")
  ELSE Response(0, "")

getProfile(decoded) ==
  IF decoded.userId = 0 THEN Reply(Response(401, "Unauthorized"))
  ELSE IF FindUserById(decoded.userId) = 0
  THEN Reply(Response(404, "User not found"))
  ELSE Reply([Response(200, "") EXCEPT !.userId = decoded.userId])

\* twoFactorEnabled: "true", "false", or Undefined (not in the body).
updateProfile(decoded, twoFactorEnabled) ==
  IF decoded.userId = 0 THEN Reply(Response(401, "Unauthorized"))
  ELSE IF FindUserById(decoded.userId) = 0
  THEN Reply(Response(404, "User not found"))
  ELSE [users |-> IF twoFactorEnabled = Undefined THEN users
                  ELSE [users EXCEPT ![decoded.userId].twoFactorEnabled =
                          (twoFactorEnabled = "true")],
        otps |-> otps, otpSeq |-> otpSeq,
        res |-> [Response(200, "Profile updated successfully") EXCEPT
                   !.userId = decoded.userId]]

\* What the client can put in the header: nothing, a token of the exchange
\* before (received or sent), or such a token with its payload re-signed
\* without the server's secret.
Presentable ==
  LET T == {last.res.token, last.res.preAuthToken, last.req.auth} \ {NoToken}
  IN {NoToken} \cup T \cup {[t EXCEPT !.sig = "forged"] : t \in T}

\* router.get('/profile', authMiddleware, getProfile)
GetProfile ==
  \E auth \in Presentable :
    LET m == authMiddleware(auth)
    IN /\ Respond("getProfile", [NoRequest EXCEPT !.auth = auth],
                  IF m.status # 0 THEN Reply(m) ELSE getProfile(verifyToken(auth)))
       /\ UNCHANGED <<now, inflight, accepted>>

\* router.put('/profile', authMiddleware, updateProfile)
UpdateProfile ==
  \E auth \in Presentable, twoFactorEnabled \in {"true", "false", Undefined} :
    LET m == authMiddleware(auth)
    IN /\ Respond("updateProfile", [NoRequest EXCEPT !.auth = auth],
                  IF m.status # 0 THEN Reply(m)
                  ELSE updateProfile(verifyToken(auth), twoFactorEnabled))
       /\ UNCHANGED <<now, inflight, accepted>>

\* ---------------------------------------------------- the settings view
\* JavaScript's a || b on booleans: a if it is true, else b.
JsOr(a, b) == IF a THEN a ELSE b

\* loadSettings: the state of the switch after a profile whose
\* twoFactorEnabled is stored has been loaded.
loadSettings(stored) ==
  JsOr(stored, TRUE)



\* handleSave: authAPI.updateProfile with the state of the switch in the
\* body; auth: the bearer token apiCall reads from the cache.
handleSave(auth, enabled) ==
  LET m == authMiddleware(auth)
  IN IF m.status # 0 THEN Reply(m)
     ELSE updateProfile(verifyToken(auth), IF enabled THEN "true" ELSE "false")

\* What the cache of a signed-in client can hold as authToken: a session
\* token the server issued, expired or not.
CachedTokens ==
  {t \in Presentable : t # NoToken /\ ~t.preAuth /\ t.sig = JWT_SECRET}

\* The settings view is mounted: the switch starts on and loadSettings sets
\* it from the profile, if the server answers with one.
LoadSettings ==
  \E auth \in CachedTokens :
    LET m == authMiddleware(auth)
        r == IF m.status # 0 THEN Reply(m) ELSE getProfile(verifyToken(auth))
    IN /\ lastEvent' = "load-settings"
       /\ last' = [op |-> "getProfile", req |-> [NoRequest EXCEPT !.auth = auth],
                   res |-> r.res]
       /\ twoFactorSwitch' =
            IF r.res.status = 200
            THEN loadSettings(users[r.res.userId].twoFactorEnabled)
            ELSE TRUE
       /\ UNCHANGED <<now, users, otps, otpSeq, inflight, accepted, page>>

\* The switch is clicked: onCheckedChange.
ToggleSwitch ==
  /\ lastEvent \in {"load-settings", "toggle", "save-settings"}
  /\ twoFactorSwitch' = ~twoFactorSwitch
  /\ lastEvent' = "toggle"
  /\ UNCHANGED <<server, page>>

\* The save button of the settings view is pressed.
SaveSettings ==
  \E auth \in CachedTokens :
    LET r == handleSave(auth, twoFactorSwitch)
    IN /\ lastEvent \in {"load-settings", "toggle", "save-settings"}
       /\ users' = r.users
       /\ last' = [op |-> "updateProfile",
                   req |-> [NoRequest EXCEPT !.auth = auth], res |-> r.res]
       /\ lastEvent' = "save-settings"
       /\ UNCHANGED <<now, otps, otpSeq, inflight, accepted, page,
                      twoFactorSwitch>>

\* ------------------------------------------------------------ the TTL index
\* expiresAt is indexed with { expires: 0 }: MongoDB's TTL monitor removes a
\* document some time after its expiresAt has passed.
TTLDelete ==
  \E i \in 1..Len(otps) :
    /\ otps[i].expiresAt <= now
    /\ otps' = SubSeq(otps, 1, i - 1) \o SubSeq(otps, i + 1, Len(otps))
    /\ UNCHANGED <<now, users, otpSeq, inflight, last, accepted>>
    /\ UNCHANGED client

\* ------------------------------------------------------------ the clock
Tick ==
  /\ now < MaxTime
  /\ now' = now + 1
  /\ UNCHANGED <<users, otps, otpSeq, inflight, last, accepted>>
  /\ UNCHANGED client

\* Requests are handled one after the other.
Next ==
  \/ Signup
  \/ VerifySignupOTP
  \/ Login
  \/ VerifyLoginOTP
  \/ GetProfile
  \/ UpdateProfile
  \/ TTLDelete
  \/ Tick

Spec == Init /\ [][Next]_vars

\* verifyLoginOTP requests overlap: each runs from one await to the next.
NextConc ==
  \/ Login
  \/ \E r \in 1..MaxInflight : VerifyLoginBegin(r)
  \/ \E r \in 1..MaxInflight : VerifyLoginEnd(r)
  \/ TTLDelete
  \/ Tick

\* The account whose login is raced exists from the start.
InitConc ==
  Init /\ users # <<>>

SpecConc == InitConc /\ [][NextConc]_vars

\* verifyLoginOTP requests overlap around user.save(): each runs from its
\* start to that await, and from there to its response.
NextDevice ==
  \/ Login
  \/ \E r \in 1..MaxInflight : VerifyLoginLoad(r)
  \/ \E r \in 1..MaxInflight : VerifyLoginSaveUser(r)
  \/ TTLDelete
  \/ Tick

SpecDevice == InitConc /\ [][NextDevice]_vars

\* Two accounts share a browser: logins and login verifications, one after
\* the other, on a database that holds both accounts.
NextAccounts ==
  \/ Login
  \/ VerifyLoginOTP
  \/ TTLDelete
  \/ Tick

InitAccounts ==
  /\ now = 0
  /\ users = <<NewUser("ann", "pw1"), NewUser("eve", "pw2")>>
  /\ otps = <<>>
  /\ otpSeq = 0
  /\ inflight = [r \in 1..MaxInflight |-> IdleRequest]
  /\ last = [op |-> "none", req |-> NoRequest, res |-> Response(0, "")]
  /\ accepted = {}
  /\ InitClient

SpecAccounts == InitAccounts /\ [][NextAccounts]_vars

\* The settings view of a signed-in user next to the server: logins, login
\* verifications and profile updates from elsewhere go on.
NextSettings ==
  \/ Login
  \/ VerifyLoginOTP
  \/ UpdateProfile
  \/ LoadSettings
  \/ ToggleSwitch
  \/ SaveSettings
  \/ Tick

SpecSettings == InitConc /\ [][NextSettings]_vars

\* ------------------------------------------------- secure storage calls
SetItem ==
  \E key \in CacheKeys, value \in CacheValues :
    /\ localStorage' = setItem(localStorage, key, value)
    /\ lastSet' = [key |-> key, value |-> value]
    /\ lastGet' = [key |-> "", result |-> Null, after |-> NoCall]
    /\ lastCall' = "setItem"
    /\ UNCHANGED <<server, app>>

GetItem ==
  \E key \in CacheKeys :
    /\ lastGet' = [key |-> key, result |-> getItem(localStorage, key),
                   after |-> lastSet]
    /\ lastSet' = NoCall
    /\ lastCall' = "getItem"
    /\ UNCHANGED <<localStorage, server, app>>

RemoveItem ==
  \E key \in CacheKeys :
    /\ localStorage' = removeItem(localStorage, key)
    /\ lastSet' = NoCall
    /\ lastCall' = "removeItem"
    /\ UNCHANGED <<lastGet, server, app>>

Clear ==
  /\ localStorage' = clear(localStorage)
  /\ lastSet' = NoCall
  /\ lastCall' = "clear"
  /\ UNCHANGED <<lastGet, server, app>>

\* The stored text of a sensitive entry is overwritten from outside the
\* program (another script of the origin, the browser's developer tools, a
\* damaged profile).
Corrupt ==
  \E key \in CacheKeys \cap SENSITIVE_KEYS, text \in CorruptTexts :
    /\ localStorage[EncryptedKey(key)] # Null
    /\ localStorage' = [localStorage EXCEPT ![EncryptedKey(key)] = text]
    /\ lastSet' = NoCall
    /\ lastCall' = "corrupt"
    /\ UNCHANGED <<lastGet, server, app>>

\* The client's calls on its storage, one after the other (the page runs on
\* one thread); the server is not involved.
NextCache ==
  \/ SetItem
  \/ GetItem
  \/ RemoveItem
  \/ Clear
  \/ Corrupt

InitCache ==
  Init /\ users = <<>>

SpecCache == InitCache /\ [][NextCache]_vars

\* ------------------------------------------------------------ the client
\* The page becomes s after the event; reset: resetInactivityTimer ran.
Show(s, event, reset) ==
  /\ s.listeners <= MaxListeners
  /\ localStorage' = s.localStorage
  /\ currentView' = s.currentView
  /\ userEmail' = s.userEmail
  /\ timers' = s.timers
  /\ timeoutId' = s.timeoutId
  /\ listeners' = s.listeners
  /\ lastEvent' = event
  /\ lastActivity' = IF reset \/ s.started THEN clock ELSE lastActivity
  /\ sessionStart' = IF s.started THEN clock ELSE sessionStart
  /\ otp' = IF s.currentView \in VerifyViews THEN s.otp ELSE <<>>
  /\ error' = IF s.currentView \in VerifyViews THEN s.error ELSE ""
  /\ UNCHANGED <<clock, server, cache, twoFactorSwitch>>

\* The page is opened or reloaded.
LoadApp ==
  \E profileOk \in BOOLEAN :
    /\ currentView \in Views
    /\ Show(checkAuthStatus(localStorage, profileOk), "load", FALSE)

\* The login form is submitted.
SubmitLogin ==
  \E rememberMe \in BOOLEAN, outcome \in {"error", "requiresOTP", "token"} :
    /\ currentView = "login"
    /\ Show(handleSubmit(Page, TheEmail, rememberMe, outcome), "login", FALSE)

\* A digit is typed into InputOTP or deleted from it: onChange.
EnterCode ==
  \E value \in OtpInputs \cup {<<>>} :
    /\ currentView \in VerifyViews
    /\ value # otp
    /\ Show([Page EXCEPT !.otp = value, !.error = ""], "enter-code", FALSE)

\* The code of a login challenge is submitted (the button is enabled while
\* six digits are typed in).
VerifyLogin ==
  \E rememberDevice \in BOOLEAN, outcome \in {"token"} \cup Rejections :
    /\ currentView = "verify-login"
    /\ Len(otp) = 6
    /\ Show(handleVerify(Page, rememberDevice, "dashboard", outcome),
            IF outcome = "token" THEN "verify-login" ELSE "verify-rejected",
            FALSE)

\* The resend button is pressed, once the countdown has enabled it.
Resend ==
  \E outcome \in {"sent", "Email already registered"} :
    /\ currentView \in VerifyViews
    /\ currentView = "verify-login" => outcome = "sent"
    /\ Show(handleResend(Page, outcome), "resend", FALSE)

\* The signup form is submitted and the server accepted it.
SubmitSignUp ==
  /\ currentView = "signup"
  /\ Show(handleSignUp(Page, TheEmail), "signup", FALSE)

\* The code of a signup challenge is submitted.
VerifySignUp ==
  \E outcome \in {"token"} \cup Rejections :
    /\ currentView = "verify-signup"
    /\ Len(otp) = 6
    /\ Show(handleVerify(Page, FALSE, "success", outcome),
            IF outcome = "token" THEN "verify-signup" ELSE "verify-rejected",
            FALSE)

\* handleContinueToDashboard
ContinueToDashboard ==
  /\ currentView = "success"
  /\ Show(persist([Page EXCEPT !.currentView = "dashboard"]), "continue", FALSE)

\* handleBackToLogin, handleBackToSignUp and the two links between the login
\* and the signup view.
SwitchView ==
  \E from \in Views, to \in {"login", "signup"} :
    /\ currentView = from
    /\ \/ from = "verify-login" /\ to = "login"
       \/ from = "verify-signup" /\ to = "signup"
       \/ from = "login" /\ to = "signup"
       \/ from = "signup" /\ to = "login"
    /\ Show(persist([Page EXCEPT !.currentView = to]),
            IF from = "verify-login" THEN "back-to-login" ELSE "switch", FALSE)

\* The user logs out of the dashboard.
Logout ==
  /\ currentView = "dashboard"
  /\ Show(handleLogout(Page), "logout", FALSE)

\* A mousedown, keydown, scroll or touchstart reaches the listeners.
Activity ==
  /\ listeners > 0
  /\ Show(activity(Page, listeners), "activity", TRUE)

\* A pending timeout is due: its callback runs endSession, and the
\* navigation to /login loads the page anew.
Timeout ==
  \E t \in timers, profileOk \in BOOLEAN :
    /\ t.at <= clock
    /\ Show(checkAuthStatus(
              endSession([Page EXCEPT !.timers = @ \ {t}]).localStorage,
              profileOk), "timeout", FALSE)

\* The browser's clock; a timeout that is due runs before time goes on.
ClockTick ==
  /\ clock < MaxClock
  /\ \A t \in timers : clock < t.at
  /\ clock' = clock + 1
  /\ UNCHANGED <<localStorage, currentView, userEmail, timers, timeoutId,
                 listeners, lastEvent, lastActivity, sessionStart,
                 otp, error, twoFactorSwitch, server, cache>>

NextClient ==
  \/ LoadApp
  \/ SubmitLogin
  \/ EnterCode
  \/ VerifyLogin
  \/ Resend
  \/ SubmitSignUp
  \/ VerifySignUp
  \/ ContinueToDashboard
  \/ SwitchView
  \/ Logout
  \/ Activity
  \/ Timeout
  \/ ClockTick

InitClientApp ==
  Init /\ users = <<>>

SpecClient == InitClientApp /\ [][NextClient]_vars

\* ===================================================================
\* Properties
\* ===================================================================
\* The verify request that presents the e-mail, code and purpose of the
\* challenge at position i, with a complete body.
VerifyOf(i) ==
  IF otps[i].purpose = "signup"
  THEN verifySignupOTP(otps[i].email, otps[i].code, "Ann", "Ann", "pw1")
  ELSE verifyLoginOTP(otps[i].email, otps[i].code, Undefined, FALSE)

\* Another unconsumed challenge with the e-mail, code and purpose of i.
HasTwin(i) ==
  \E j \in 1..Len(otps) :
    /\ j # i
    /\ otps[j].email = otps[i].email
    /\ otps[j].code = otps[i].code
    /\ otps[j].purpose = otps[i].purpose
    /\ ~otps[j].isUsed

VerifyOps == {"verifyLoginOTP", "verifySignupOTP"}

\* ------------------------------------------------------------------- C1
\* C1 as stated: once a verify request has succeeded with a challenge, every
\* later request with the same e-mail, code and purpose is rejected and
\* never returns a session token.
C1_NoLaterSuccess ==
  \A i \in 1..Len(otps) :
    otps[i].wins >= 1 => VerifyOf(i).res.token = NoToken

\* C1 amended: requests handled one after the other return at most one
\* session token per challenge, and only by consuming it; a request that
\* presents the code of a consumed challenge is answered "Invalid OTP code"
\* and changes nothing, unless another unconsumed challenge has the same
\* e-mail, code and purpose: then it is matched against that one, never
\* against the consumed one.
C1_SingleUsePerChallenge ==
  /\ \A i \in 1..Len(otps) :
       /\ otps[i].wins <= 1
       /\ otps[i].wins = 1 => otps[i].isUsed
       /\ otps[i].isUsed =>
            LET r == VerifyOf(i)
            IN IF HasTwin(i)
               THEN r.res.otpId # otps[i].id
               ELSE /\ r.res = Response(400, "Invalid OTP code")
                    /\ r.otps = otps
                    /\ r.users = users
  /\ (last.op \in VerifyOps /\ last.res.token # NoToken) =>
       \A i \in 1..Len(otps) :
         otps[i].id = last.res.otpId => otps[i].isUsed /\ otps[i].wins = 1

\* A consumed challenge's code was presented again and rejected.
C1_ReplayRejected ==
  /\ last.op \in VerifyOps
  /\ last.res.message = "Invalid OTP code"
  /\ \E i \in 1..Len(otps) :
       /\ otps[i].wins = 1
       /\ otps[i].email = toLowerCase(last.req.email)
       /\ otps[i].code = last.req.code
       /\ (otps[i].purpose = "login") = (last.op = "verifyLoginOTP")

\* ------------------------------------------------------------------- C2
\* C2: of the verifyLoginOTP requests that are processed concurrently for
\* one login challenge, at most one returns a session token.
C2_AtMostOneToken ==
  \A i \in 1..Len(otps) :
    otps[i].purpose = "login" => otps[i].wins <= 1

\* ------------------------------------------------------------------- C3
ProtectedOps == {"getProfile", "updateProfile"}

\* C3: a request to a protected route that presents a pre-auth token issued
\* by login is rejected as unauthenticated (401).
C3_PreAuthRejected ==
  (/\ last.op \in ProtectedOps
   /\ last.req.auth.preAuth
   /\ last.req.auth.sig = JWT_SECRET) => last.res.status = 401

\* ------------------------------------------------------------------- C4
\* The account id holds a trusted-device record for deviceId that has not
\* expired.
HoldsUnexpired(id, deviceId) ==
  /\ deviceId # Undefined
  /\ \E k \in 1..Len(users[id].trustedDevices) :
       /\ users[id].trustedDevices[k].deviceId = deviceId
       /\ now < users[id].trustedDevices[k].expiresAt

\* The result r marks a challenge consumed that was unconsumed before.
Consumes(r) ==
  \E i \in 1..Len(otps) :
    /\ otps[i].id = r.res.otpId
    /\ ~otps[i].isUsed
    /\ r.otps[i].isUsed

\* Every verify request that returns a session token consumes a challenge;
\* signup and the profile routes return none.
TokenByVerifyConsumes ==
  /\ \A email \in Emails \cup {Undefined}, code \in Codes \cup {Undefined} :
       /\ \A deviceId \in DeviceIds \cup {Undefined}, rememberDevice \in BOOLEAN :
            LET r == verifyLoginOTP(email, code, deviceId, rememberDevice)
            IN r.res.token # NoToken => Consumes(r)
       /\ \A name \in Names \cup {Undefined}, password \in Passwords \cup {Undefined} :
            LET r == verifySignupOTP(email, code, name, name, password)
            IN r.res.token # NoToken => Consumes(r)
  /\ last.res.token # NoToken => last.op \in VerifyOps \cup {"login"}

\* C4 as stated: a session token is issued only by a login that matched an
\* unexpired trusted-device record of the account, or by a request that
\* consumed a challenge.
C4_OnlyBypassOrChallenge ==
  /\ TokenByVerifyConsumes
  /\ \A email \in Emails \cup Strangers \cup {Undefined},
        password \in Passwords \cup {Undefined},
        deviceId \in DeviceIds \cup {Undefined},
        otpCode \in Codes, emailSent \in BOOLEAN :
       LET r == login(email, password, deviceId, otpCode, emailSent)
       IN r.res.token # NoToken =>
            r.res.userId # 0 /\ HoldsUnexpired(r.res.userId, deviceId)

\* C4 amended: a session token is issued only by (a) a login that matched an
\* unexpired trusted-device record of the account, (b) a verify request that
\* consumed a challenge, or (c) a login with the correct password to an
\* account whose two-factor flag is off.
C4_OnlyBypassChallengeOrDirect ==
  /\ TokenByVerifyConsumes
  /\ \A email \in Emails \cup Strangers \cup {Undefined},
        password \in Passwords \cup {Undefined},
        deviceId \in DeviceIds \cup {Undefined},
        otpCode \in Codes, emailSent \in BOOLEAN :
       LET r == login(email, password, deviceId, otpCode, emailSent)
           id == r.res.userId
       IN r.res.token # NoToken =>
            /\ id # 0
            /\ users[id].email = toLowerCase(email)
            /\ users[id].password = hashPassword(password)
            /\ \/ HoldsUnexpired(id, deviceId)
               \/ ~users[id].twoFactorEnabled

\* A login went straight to a session token for an account without
\* two-factor.
C4_DirectLoginSeen ==
  /\ last.op = "login"
  /\ last.res.token # NoToken
  /\ last.res.userId # 0
  /\ ~users[last.res.userId].twoFactorEnabled

\* ------------------------------------------------------------------- C5
\* C5: a verify request with the correct code never succeeds on a challenge
\* at a time now >= its expiry, the boundary now = expiry included.
C5_NoSuccessFromExpiry ==
  \A i \in 1..Len(otps) :
    (~otps[i].isUsed /\ now >= otps[i].expiresAt) =>
      LET r == VerifyOf(i)
      IN r.res.token = NoToken \/ r.res.otpId # otps[i].id

\* ------------------------------------------------------------------- C6
\* C6: a login that skips the challenge of a two-factor account does so
\* only for a deviceId of which the account holds a record with
\* now < expiresAt; a record whose expiry has passed grants nothing.
C6_BypassOnlyUnexpired ==
  \A email \in Emails \cup Strangers \cup {Undefined},
     password \in Passwords \cup {Undefined},
     deviceId \in DeviceIds \cup {Undefined},
     otpCode \in Codes, emailSent \in BOOLEAN :
    LET r == login(email, password, deviceId, otpCode, emailSent)
        id == r.res.userId
    IN /\ (r.res.token # NoToken /\ users[id].twoFactorEnabled) =>
            HoldsUnexpired(id, deviceId)
       /\ r.res.message = "Login successful (trusted device)" =>
            HoldsUnexpired(id, deviceId)

\* A login named a device whose record is still held but has expired, and
\* was sent through the challenge.
C6_ExpiredRecordChallenged ==
  /\ last.op = "login"
  /\ last.req.deviceId # Undefined
  /\ last.res.requiresOTP
  /\ last.res.token = NoToken
  /\ \E k \in 1..Len(users[last.res.userId].trustedDevices) :
       /\ users[last.res.userId].trustedDevices[k].deviceId = last.req.deviceId
       /\ users[last.res.userId].trustedDevices[k].expiresAt <= now

\* ------------------------------------------------------------------- C7
\* C7: a login with the correct password to a two-factor account, from no
\* unexpired trusted device, creates exactly one unconsumed login challenge
\* that expires in ten minutes and answers with the pending flag, a pre-auth
\* token and no session token (the code being delivered); and a login
\* challenge yields a session token only to a request that presents its
\* code before its expiry.
C7_ChallengeThenToken ==
  /\ \A email \in Emails \cup Strangers, password \in Passwords,
        deviceId \in DeviceIds \cup {Undefined}, otpCode \in Codes :
       LET id == FindUserByEmail(toLowerCase(email))
           r == login(email, password, deviceId, otpCode, TRUE)
       IN (/\ id # 0
           /\ users[id].password = hashPassword(password)
           /\ users[id].twoFactorEnabled
           /\ ~HoldsUnexpired(id, deviceId)) =>
            /\ r.users = users
            /\ r.otps = Append(otps,
                         [id |-> otpSeq + 1, userId |-> id, code |-> otpCode,
                          email |-> users[id].email,
                          expiresAt |-> now + OTP_TTL, isUsed |-> FALSE,
                          purpose |-> "login", wins |-> 0])
            /\ r.res.requiresOTP
            /\ r.res.preAuthToken # NoToken
            /\ r.res.preAuthToken.preAuth
            /\ r.res.token = NoToken
  /\ \A i \in 1..Len(otps) :
     \A deviceId \in DeviceIds \cup {Undefined}, rememberDevice \in BOOLEAN :
       LET r == verifyLoginOTP(otps[i].email, otps[i].code, deviceId,
                               rememberDevice)
       IN (r.res.token # NoToken /\ r.res.otpId = otps[i].id) =>
            now < otps[i].expiresAt

\* ------------------------------------------------------------------- C8
\* C8: a login with the correct password to an account whose two-factor
\* flag is off returns a session token of that account at once: no
\* challenge is created, no code is mailed, no pre-auth token is returned.
C8_DirectLogin ==
  \A email \in Emails \cup Strangers, password \in Passwords,
     deviceId \in DeviceIds \cup {Undefined},
     otpCode \in Codes, emailSent \in BOOLEAN :
    LET id == FindUserByEmail(toLowerCase(email))
        r == login(email, password, deviceId, otpCode, emailSent)
    IN (/\ id # 0
        /\ users[id].password = hashPassword(password)
        /\ ~users[id].twoFactorEnabled) =>
         /\ r.res.status = 200
         /\ r.res.token # NoToken
         /\ ~r.res.token.preAuth
         /\ r.res.token.userId = id
         /\ r.res.preAuthToken = NoToken
         /\ ~r.res.requiresOTP
         /\ r.res.mailed = "none"
         /\ r.otps = otps
         /\ r.otpSeq = otpSeq
         /\ r.users = users

\* Two-factor was switched off through updateProfile and the next login
\* got its token with no login challenge in the store.
C8_DirectAfterDisable ==
  /\ last.op = "login"
  /\ last.res.message = "Login successful"
  /\ last.res.token.userId = last.res.userId
  /\ ~users[last.res.userId].twoFactorEnabled
  /\ last.res.preAuthToken = NoToken
  /\ \A i \in 1..Len(otps) : otps[i].purpose # "login"

\* ------------------------------------------------------------------- C9
\* C9: a login with an unknown e-mail and a login with a known e-mail and a
\* wrong password get the same response (status 400, one generic message),
\* and neither creates a challenge, issues a token or changes an account.
C9_GenericFailure ==
  \A email \in Emails \cup Strangers, password \in Passwords,
     deviceId \in DeviceIds \cup {Undefined},
     otpCode \in Codes, emailSent \in BOOLEAN :
    LET id == FindUserByEmail(toLowerCase(email))
        r == login(email, password, deviceId, otpCode, emailSent)
    IN (id = 0 \/ users[id].password # hashPassword(password)) =>
         /\ r.res = Response(400, "Invalid email or password")
         /\ r.res.token = NoToken /\ r.res.preAuthToken = NoToken
         /\ r.users = users /\ r.otps = otps /\ r.otpSeq = otpSeq
         /\ \A email2 \in Emails \cup Strangers, password2 \in Passwords :
              LET id2 == FindUserByEmail(toLowerCase(email2))
                  r2 == login(email2, password2, deviceId, otpCode, emailSent)
              IN (id2 = 0 \/ users[id2].password # hashPassword(password2)) =>
                   r2.res = r.res

\* A wrong password for a registered address got the generic answer, in a
\* state where the unknown address gets it too.
C9_WrongPasswordSeen ==
  /\ last.op = "login"
  /\ last.res = Response(400, "Invalid email or password")
  /\ FindUserByEmail(toLowerCase(last.req.email)) # 0
  /\ \E email \in Strangers : FindUserByEmail(toLowerCase(email)) = 0

\* ------------------------------------------------------------------ C10
\* C10: a login or signup whose code could not be delivered answers with an
\* error and no token, and the challenge it created cannot be used to pass
\* verification afterwards.
C10_FailedDeliveryInert ==
  last.res.mailed = "failed" =>
    /\ last.res.status = 500
    /\ last.res.token = NoToken /\ last.res.preAuthToken = NoToken
    /\ \A i \in 1..Len(otps) :
         otps[i].id = otpSeq =>
           LET r == VerifyOf(i)
           IN r.res.token = NoToken \/ r.res.otpId # otps[i].id

\* ------------------------------------------------------------------ C11
\* The records that the account u holds for deviceId and that have not
\* expired.
UnexpiredRecords(u, deviceId) ==
  {k \in 1..Len(u.trustedDevices) :
     /\ u.trustedDevices[k].deviceId = deviceId
     /\ now < u.trustedDevices[k].expiresAt}

\* C11: after a login challenge is verified with rememberDevice set and a
\* deviceId supplied, the account holds an unexpired trusted-device record
\* for that deviceId: a new one with expiry 30 days ahead when it held no
\* unexpired one before (also when it held an expired one), and nothing is
\* added when it held an unexpired one.
C11_RememberedDeviceUnexpired ==
  \A i \in 1..Len(otps), deviceId \in DeviceIds :
    LET r == verifyLoginOTP(otps[i].email, otps[i].code, deviceId, TRUE)
        id == r.res.userId
    IN (otps[i].purpose = "login" /\ r.res.token # NoToken) =>
         IF UnexpiredRecords(users[id], deviceId) # {}
         THEN r.users = users
         ELSE /\ UnexpiredRecords(r.users[id], deviceId) # {}
              /\ \A k \in UnexpiredRecords(r.users[id], deviceId) :
                   r.users[id].trustedDevices[k].expiresAt = now + DEVICE_TTL

\* ------------------------------------------------------------------ C12
\* The time at which the session token of the last response was signed.
IssuedAt ==
  last.res.token.exp - SESSION_TTL

\* C12: once a login verification with rememberDevice and a deviceId has
\* succeeded, a login with the correct password and the same deviceId within
\* 30 days of it returns a session token at once and creates no challenge.
C12_RememberedDeviceBypasses ==
  (/\ last.op = "verifyLoginOTP"
   /\ last.res.token # NoToken
   /\ last.req.deviceId # Undefined
   /\ now < IssuedAt + DEVICE_TTL) =>
    \A password \in Passwords, otpCode \in Codes, emailSent \in BOOLEAN :
      LET id == last.res.userId
          r == login(users[id].email, password, last.req.deviceId,
                     otpCode, emailSent)
      IN users[id].password = hashPassword(password) =>
           /\ r.res.token # NoToken
           /\ r.res.token.userId = id
           /\ r.res.preAuthToken = NoToken
           /\ r.otps = otps

\* ------------------------------------------------------------------ C13
\* An unconsumed login challenge for this e-mail carries this code.
SomeLoginChallenge(email, code) ==
  \E i \in 1..Len(otps) :
    /\ otps[i].email = toLowerCase(email)
    /\ otps[i].code = code
    /\ otps[i].purpose = "login"
    /\ ~otps[i].isUsed

\* C13: a login verification with an incorrect code is answered "Invalid OTP
\* code" and changes no challenge and no account; after such a rejection the
\* correct code of an outstanding challenge, presented before its expiry,
\* still returns a session token by consuming one challenge with that code,
\* and the challenge it consumed is not matched again.
C13_RejectionKeepsChallenge ==
  /\ \A email \in Emails, code \in Codes,
        deviceId \in DeviceIds \cup {Undefined}, rememberDevice \in BOOLEAN :
       ~SomeLoginChallenge(email, code) =>
         LET r == verifyLoginOTP(email, code, deviceId, rememberDevice)
         IN /\ r.res = Response(400, "Invalid OTP code")
            /\ r.otps = otps /\ r.users = users /\ r.otpSeq = otpSeq
  /\ (last.op = "verifyLoginOTP" /\ last.res.message = "Invalid OTP code") =>
       \A i \in 1..Len(otps) :
         (/\ otps[i].purpose = "login"
          /\ otps[i].email = toLowerCase(last.req.email)
          /\ ~otps[i].isUsed
          /\ now < otps[i].expiresAt) =>
           LET r == VerifyOf(i)
           IN /\ r.res.token # NoToken
              /\ \E j \in 1..Len(otps) :
                   /\ otps[j].id = r.res.otpId
                   /\ otps[j].code = otps[i].code
                   /\ r.otps[j].isUsed
                   /\ \A k \in 1..Len(otps) : k # j => r.otps[k] = otps[k]

\* ------------------------------------------------------------------ C14
\* The unconsumed login challenges for this e-mail that carry this code and
\* have not expired.
LiveLoginChallenges(email, code) ==
  {i \in 1..Len(otps) :
     /\ otps[i].email = toLowerCase(email)
     /\ otps[i].code = code
     /\ otps[i].purpose = "login"
     /\ ~otps[i].isUsed
     /\ now < otps[i].expiresAt}

\* C14: with several outstanding login challenges for one e-mail, a verify
\* request succeeds whenever the presented code is the code of some
\* unconsumed, unexpired record (also when another unconsumed record with
\* that code has expired), it succeeds only if an unconsumed record carries
\* the code, and a success consumes exactly one record with that code and
\* leaves the others as they were.
C14_AnyLiveRecordVerifies ==
  \A email \in Emails, code \in Codes :
    LET r == verifyLoginOTP(email, code, Undefined, FALSE)
    IN /\ LiveLoginChallenges(email, code) # {} =>
            /\ r.res.token # NoToken
            /\ \E j \in 1..Len(otps) :
                 /\ otps[j].code = code
                 /\ ~otps[j].isUsed
                 /\ r.otps[j].isUsed
                 /\ \A k \in 1..Len(otps) : k # j => r.otps[k] = otps[k]
       /\ r.res.token # NoToken => SomeLoginChallenge(email, code)

\* ------------------------------------------------------------------ C15
\* The challenges issued for this purpose.
OfPurpose(purpose) ==
  {j \in 1..Len(otps) : otps[j].purpose = purpose}

\* C15: a login verification never succeeds on, consumes or alters a
\* challenge issued for signup, and a signup verification never a challenge
\* issued for login, whatever e-mail and code are presented.
C15_PurposeSeparation ==
  \A email \in Emails, code \in Codes :
    /\ \A deviceId \in DeviceIds \cup {Undefined}, rememberDevice \in BOOLEAN :
         LET r == verifyLoginOTP(email, code, deviceId, rememberDevice)
         IN /\ \A j \in OfPurpose("signup") : r.otps[j] = otps[j]
            /\ r.res.otpId # 0 =>
                 \E j \in OfPurpose("login") : otps[j].id = r.res.otpId
            /\ r.res.token # NoToken =>
                 \E j \in OfPurpose("login") :
                   /\ otps[j].email = toLowerCase(email)
                   /\ otps[j].code = code
                   /\ ~otps[j].isUsed /\ r.otps[j].isUsed
    /\ \A name \in Names \cup {Undefined}, password \in {"pw1", Undefined} :
         LET r == verifySignupOTP(email, code, name, name, password)
         IN /\ \A j \in OfPurpose("login") : r.otps[j] = otps[j]
            /\ r.res.otpId # 0 =>
                 \E j \in OfPurpose("signup") : otps[j].id = r.res.otpId
            /\ r.res.token # NoToken =>
                 \E j \in OfPurpose("signup") :
                   /\ otps[j].email = toLowerCase(email)
                   /\ otps[j].code = code
                   /\ ~otps[j].isUsed /\ r.otps[j].isUsed

\* A verification presented the e-mail and the code of an unconsumed
\* challenge of the other purpose and was turned away.
C15_OtherPurposeRejected ==
  /\ last.op \in VerifyOps
  /\ last.res.message = "Invalid OTP code"
  /\ \E j \in 1..Len(otps) :
       /\ otps[j].email = toLowerCase(last.req.email)
       /\ otps[j].code = last.req.code
       /\ ~otps[j].isUsed
       /\ now < otps[j].expiresAt
       /\ (otps[j].purpose = "signup") = (last.op = "verifyLoginOTP")

\* ------------------------------------------------------------------ C16
\* The result r leaves the accounts that exist in place and adds none.
NoAccountAdded(r) ==
  /\ Len(r.users) = Len(users)
  /\ \A u \in 1..Len(users) : r.users[u].email = users[u].email

\* C16: no request but a signup verification adds an account (signup alone
\* adds none), and a signup verification adds one only for the e-mail of a
\* signup challenge that it consumes; a signup challenge yields at most one
\* account.
C16_AccountOnlyByVerifiedSignup ==
  /\ \A email \in Emails \cup {Undefined}, password \in {"pw1", Undefined},
        name \in Names \cup {Undefined}, otpCode \in Codes,
        emailSent \in BOOLEAN :
       signup(email, password, name, name, otpCode, emailSent).users = users
  /\ \A email \in Emails \cup Strangers \cup {Undefined},
        password \in Passwords \cup {Undefined},
        deviceId \in DeviceIds \cup {Undefined}, otpCode \in Codes,
        emailSent \in BOOLEAN :
       login(email, password, deviceId, otpCode, emailSent).users = users
  /\ \A email \in Emails \cup {Undefined}, code \in Codes \cup {Undefined} :
       /\ \A deviceId \in DeviceIds \cup {Undefined}, rememberDevice \in BOOLEAN :
            NoAccountAdded(verifyLoginOTP(email, code, deviceId, rememberDevice))
       /\ \A name \in Names \cup {Undefined}, password \in {"pw1", Undefined} :
            LET r == verifySignupOTP(email, code, name, name, password)
            IN \/ r.users = users
               \/ /\ r.users = Append(users, r.users[Len(r.users)])
                  /\ r.users[Len(r.users)].email = toLowerCase(email)
                  /\ \E j \in OfPurpose("signup") :
                       /\ otps[j].email = toLowerCase(email)
                       /\ otps[j].code = code
                       /\ ~otps[j].isUsed /\ otps[j].wins = 0
                       /\ r.otps[j].isUsed /\ r.otps[j].wins = 1
  /\ \A t \in Presentable, twoFactorEnabled \in {"true", "false", Undefined} :
       /\ NoAccountAdded(getProfile(t))
       /\ NoAccountAdded(updateProfile(t, twoFactorEnabled))
  /\ \A j \in OfPurpose("signup") :
       otps[j].wins >= 1 =>
         /\ otps[j].wins = 1 /\ otps[j].isUsed
         /\ FindUserByEmail(otps[j].email) # 0

\* A signup verification has just created the account of its e-mail.
C16_AccountCreatedByVerify ==
  /\ last.op = "verifySignupOTP"
  /\ last.res.status = 201
  /\ last.res.userId = Len(users)
  /\ users[last.res.userId].email = toLowerCase(last.req.email)
  /\ \E j \in OfPurpose("signup") :
       /\ otps[j].id = last.res.otpId
       /\ otps[j].email = users[last.res.userId].email
       /\ otps[j].isUsed

\* ------------------------------------------------------------------ C17
\* C17: in every reachable state the stored e-mails are lower-case and no
\* two accounts have the same lower-cased e-mail, also after two signup
\* challenges for one e-mail written in different letter case were both
\* verified.
C17_EmailUnique ==
  \A a, b \in 1..Len(users) :
    /\ users[a].email = toLowerCase(users[a].email)
    /\ a # b => toLowerCase(users[a].email) # toLowerCase(users[b].email)

\* Two signup challenges of one e-mail were both consumed with complete
\* bodies; the second verification, spelled in the other letter case, found
\* the account of the first and created none.
C17_SecondVerifyCreatedNone ==
  /\ last.op = "verifySignupOTP"
  /\ last.res.status = 500
  /\ last.req.email # toLowerCase(last.req.email)
  /\ Len(users) = 1
  /\ users[1].email = toLowerCase(last.req.email)
  /\ \E i, j \in OfPurpose("signup") :
       /\ i # j
       /\ otps[i].email = users[1].email /\ otps[j].email = users[1].email
       /\ otps[i].isUsed /\ otps[i].wins = 1
       /\ otps[j].isUsed /\ otps[j].wins = 0 /\ otps[j].id = last.res.otpId

\* ------------------------------------------------------------------ C18
\* C18: after a signup request that sent its code, a verification with the
\* e-mail and the code of the challenge just created and a complete body,
\* made before the challenge expires, returns a session token for a new
\* account of that e-mail; and while that token is unexpired, getProfile
\* with it passes the middleware and answers 200 with that account.
C18_RegisterVerifyProfile ==
  /\ (last.op = "signup" /\ last.res.status = 200) =>
       \A j \in OfPurpose("signup") :
         (otps[j].id = otpSeq /\ now < otps[j].expiresAt) =>
           LET r == verifySignupOTP(otps[j].email, otps[j].code,
                                    "Ann", "Ann", "pw1")
           IN /\ r.res.status = 201
              /\ r.res.token # NoToken
              /\ r.res.token.userId = Len(r.users)
              /\ r.users[Len(r.users)].email = otps[j].email
  /\ (/\ last.op = "verifySignupOTP"
      /\ last.res.token # NoToken
      /\ now < last.res.token.exp) =>
       /\ authMiddleware(last.res.token).status = 0
       /\ LET p == getProfile(verifyToken(last.res.token))
          IN /\ p.res.status = 200
             /\ p.res.userId = last.res.userId
             /\ users[p.res.userId].email = toLowerCase(last.req.email)

\* ------------------------------------------------------------------ C19
\* The bearer token is re-signed without the server's secret, or its expiry
\* has been reached.
TamperedOrExpired(auth) ==
  auth # NoToken /\ (auth.sig # JWT_SECRET \/ auth.exp <= now)

\* C19: a missing token is answered 401 'No token provided'; for a tampered
\* or expired token verifyToken returns the invalid value (NoToken) and the
\* middleware answers 401 'Invalid token', the same response for both; and
\* a request to a protected route with such a token gets exactly that
\* response, carries no identity and leaves accounts and challenges as they
\* were (the handler is not run).
C19_FailsClosed ==
  /\ [](\A auth \in Presentable :
          /\ auth = NoToken =>
               authMiddleware(auth) = Response(401, "No token provided")
          /\ TamperedOrExpired(auth) =>
               /\ verifyToken(auth) = NoToken
               /\ authMiddleware(auth) = Response(401, "Invalid token"))
  /\ [][(/\ last' # last
         /\ last'.op \in ProtectedOps
         /\ (last'.req.auth = NoToken \/ TamperedOrExpired(last'.req.auth))) =>
          /\ last'.res = Response(401, IF last'.req.auth = NoToken
                                       THEN "No token provided"
                                       ELSE "Invalid token")
          /\ last'.res.userId = 0
          /\ users' = users /\ otps' = otps /\ otpSeq' = otpSeq]_vars

\* A protected route has just turned away a token that carries the server's
\* signature and has expired.
C19_ExpiredTokenRejected ==
  /\ last.op \in ProtectedOps
  /\ last.req.auth # NoToken
  /\ last.req.auth.sig = JWT_SECRET
  /\ ~last.req.auth.preAuth
  /\ last.req.auth.exp <= now
  /\ last.res = Response(401, "Invalid token")

\* ------------------------------------------------------------------ C20
\* C20: a getItem(k) that follows a setItem(k, v) at once, k a sensitive
\* key, returns exactly v.
C20_RoundTrip ==
  (lastGet.key \in SENSITIVE_KEYS /\ lastGet.after.key = lastGet.key) =>
    lastGet.result = lastGet.after.value

\* ------------------------------------------------------------------ C21
\* decryptData's inverse transform fails on the stored text: one of its two
\* atob calls throws.
InverseFails(text) ==
  \/ atob(text).threw
  \/ atob(XorCipher(atob(text).val)).threw

\* C21: a getItem of a sensitive key whose stored entry is corrupted, so
\* that the inverse transform fails, returns null, never the stored text or
\* another string.
C21_CorruptReadsAbsent ==
  (/\ lastCall = "getItem"
   /\ lastGet.key \in SENSITIVE_KEYS
   /\ localStorage[EncryptedKey(lastGet.key)] \in CorruptTexts
   /\ InverseFails(localStorage[EncryptedKey(lastGet.key)])) =>
    lastGet.result = Null

\* ------------------------------------------------------------------ C23
\* C23: clear() empties the store: after it hasItem(k) is false and
\* getItem(k) is null for every key, sensitive or not, whatever was set
\* before.
C23_ClearRemovesAll ==
  /\ \A key \in CacheKeys :
       /\ ~hasItem(clear(localStorage), key)
       /\ getItem(clear(localStorage), key) = Null
  /\ lastCall = "clear" =>
       \A key \in CacheKeys :
         ~hasItem(localStorage, key) /\ getItem(localStorage, key) = Null

\* clear() has just run, after a key had been set and read back.
C23_ClearedAfterSet ==
  /\ lastCall = "clear"
  /\ lastGet.key # ""
  /\ lastGet.result # Null
  /\ \A k \in StorageKeys : localStorage[k] = Null

\* ------------------------------------------------------------------ C22
\* The four credentials the client caches, and their plain values.
CredentialKeys == {"authToken", "userEmail", "preAuthToken", "deviceId"}
Plaintexts == {SessionJwt, TheEmail, PreAuthJwt, DeviceUuid}

\* C22: in every reachable client state the store holds none of the four
\* credentials in plaintext: not under the plain key name and not as an
\* untransformed value under the derived key.
C22_NoPlaintextCredential ==
  \A key \in CredentialKeys :
    /\ localStorage[key] \notin Plaintexts
    /\ localStorage[EncryptedKey(key)] \notin Plaintexts

\* ------------------------------------------------------------------ C24
\* C24: while the monitor's listeners are registered there is one pending
\* timeout, set TIMEOUT_DURATION after the last reset; an activity now would
\* set it TIMEOUT_DURATION from now, whatever time had passed before; and a
\* termination happens no earlier than TIMEOUT_DURATION after the last
\* activity.
C24_TimerRestartsOnActivity ==
  /\ listeners > 0 =>
       /\ timers = {[id |-> timeoutId, at |-> lastActivity + TIMEOUT_DURATION]}
       /\ clock <= lastActivity + TIMEOUT_DURATION
       /\ LET s == resetInactivityTimer(Page)
          IN s.timers = {[id |-> s.timeoutId, at |-> clock + TIMEOUT_DURATION]}
  /\ lastEvent = "timeout" => lastActivity + TIMEOUT_DURATION <= clock

\* A monitored session is still on the dashboard TIMEOUT_DURATION after its
\* start, because an activity in between restarted the window.
C24_ActiveBeyondFirstWindow ==
  /\ currentView = "dashboard"
  /\ listeners > 0
  /\ sessionStart < lastActivity
  /\ sessionStart + TIMEOUT_DURATION <= clock
  /\ \E t \in timers : clock < t.at

\* ------------------------------------------------------------------ C25
\* C25: after the inactivity timeout has ended the session, hasItem is false
\* for every sensitive key, the pre-auth token and the device id included,
\* and the login view is shown.
C25_TimeoutClearsCache ==
  lastEvent = "timeout" =>
    /\ currentView = "login"
    /\ \A key \in SENSITIVE_KEYS \cap AppKeys : ~hasItem(localStorage, key)

\* ------------------------------------------------------------------ C26
\* C26: whenever the dashboard is shown, an inactivity timeout is pending
\* and the activity listeners are registered.
C26_DashboardMonitored ==
  currentView = "dashboard" => timers # {} /\ listeners > 0

\* ------------------------------------------------------------------ C27
\* C27: at most one timeout is pending in every reachable state, it is the
\* one SessionManager holds the id of, and a startSession now would leave
\* exactly one pending.
C27_OneTimer ==
  /\ Cardinality(timers) <= 1
  /\ \A t \in timers : t.id = timeoutId
  /\ Cardinality(startSession(Page).timers) = 1

\* startSession has run twice on one page and one timeout is pending.
C27_RestartedSession ==
  /\ listeners = 2
  /\ Cardinality(timers) = 1
  /\ lastEvent = "login"
  /\ currentView = "dashboard"

\* ------------------------------------------------------------------ C28
\* C28: after a logout no timeout is pending and no listener is left that
\* would set one.
C28_LogoutCancelsTimer ==
  lastEvent = "logout" => timers = {} /\ listeners = 0

\* ------------------------------------------------------------------ C29
\* C29: whenever the cache holds a session token it holds no pre-auth token,
\* and after going back from the challenge view to the login view it holds
\* none either.
C29_PreAuthDiscarded ==
  /\ hasItem(localStorage, "authToken") => ~hasItem(localStorage, "preAuthToken")
  /\ lastEvent = "back-to-login" => ~hasItem(localStorage, "preAuthToken")

\* ------------------------------------------------------------------ C30
\* C30: after a logout no sensitive key has an entry in the store: none in
\* obfuscated form, and none with a value in plain form.
C30_LogoutClearsSensitive ==
  lastEvent = "logout" =>
    \A key \in SENSITIVE_KEYS \cap AppKeys :
      /\ localStorage[EncryptedKey(key)] = Null
      /\ ~Truthy(localStorage[key])

\* ------------------------------------------------------------------ C31
\* C31: for verifySignupOTP and verifyLoginOTP, with any request body, the
\* request marks a challenge consumed if and only if it returns a session
\* token; a request answered with an error leaves every challenge as it was
\* and adds no account.
C31_NoPartialState ==
  \A email \in Emails \cup {Undefined}, code \in Codes \cup {Undefined} :
    /\ \A name \in Names \cup {Undefined}, password \in {"pw1", Undefined} :
         LET r == verifySignupOTP(email, code, name, name, password)
         IN /\ Consumes(r) <=> r.res.token # NoToken
            /\ r.res.status >= 400 => r.otps = otps /\ r.users = users
    /\ \A deviceId \in DeviceIds \cup {Undefined}, rememberDevice \in BOOLEAN :
         LET r == verifyLoginOTP(email, code, deviceId, rememberDevice)
         IN /\ Consumes(r) <=> r.res.token # NoToken
            /\ r.res.status >= 400 => r.otps = otps /\ r.users = users

\* ------------------------------------------------------------------ C32
\* The answer of the verify request of the given purpose to an e-mail and a
\* code, with a complete body.
VerifyMessage(email, code, purpose) ==
  IF purpose = "signup"
  THEN verifySignupOTP(email, code, "Ann", "Ann", "pw1").res.message
  ELSE verifyLoginOTP(email, code, Undefined, FALSE).res.message

\* C32: an unconsumed challenge whose expiry has passed is answered with
\* the expired outcome now, and after any step of the system its e-mail and
\* code are still not answered with the invalid-code outcome.
C32_ExpiredStaysInert ==
  [][\A email \in Emails, code \in Codes, purpose \in {"signup", "login"} :
       (\E i \in 1..Len(otps) :
          /\ otps[i].email = email
          /\ otps[i].code = code
          /\ otps[i].purpose = purpose
          /\ ~otps[i].isUsed
          /\ OtpExpired(otps[i])) =>
         /\ VerifyMessage(email, code, purpose) = "OTP has expired"
         /\ VerifyMessage(email, code, purpose)' # "Invalid OTP code"]_vars

\* ------------------------------------------------------------------ C33
\* C33: no account holds two trusted-device records with the same deviceId,
\* also while verifyLoginOTP requests overlap.
C33_DeviceRecordsUnique ==
  \A id \in 1..Len(users) :
    \A k, l \in 1..Len(users[id].trustedDevices) :
      users[id].trustedDevices[k].deviceId = users[id].trustedDevices[l].deviceId
        => k = l

\* ------------------------------------------------------------------ C34
\* C34: whatever the cache holds when the app is loaded: if a token and an
\* e-mail are cached and getProfile fails, the load removes both from the
\* cache, shows the login view and starts no session monitor; if getProfile
\* succeeds, it shows the dashboard and starts the monitor; if the token or
\* the e-mail is absent, it shows the login view and starts no monitor.
C34_LoadChecksProfile ==
  \A profileOk \in BOOLEAN :
    LET s == checkAuthStatus(localStorage, profileOk)
        cached == /\ Truthy(getItem(localStorage, "authToken"))
                  /\ Truthy(getItem(localStorage, "userEmail"))
        monitored == s.started /\ s.timers # {} /\ s.listeners > 0
        unmonitored == ~s.started /\ s.timers = {} /\ s.listeners = 0
    IN /\ (cached /\ ~profileOk) =>
            /\ ~hasItem(s.localStorage, "authToken")
            /\ ~hasItem(s.localStorage, "userEmail")
            /\ getItem(s.localStorage, "authToken") = Null
            /\ getItem(s.localStorage, "userEmail") = Null
            /\ s.currentView = "login"
            /\ unmonitored
       /\ (cached /\ profileOk) =>
            /\ s.currentView = "dashboard"
            /\ monitored
       /\ ~cached =>
            /\ s.currentView = "login"
            /\ unmonitored

\* The app has been loaded with a cached token and e-mail that the server
\* rejected: the page still knows the e-mail, the cache holds neither.
C34_RejectedTokenRemoved ==
  /\ lastEvent = "load"
  /\ currentView = "login"
  /\ Truthy(userEmail)
  /\ ~hasItem(localStorage, "authToken")
  /\ ~hasItem(localStorage, "userEmail")
  /\ timers = {}

\* ------------------------------------------------------------------ C35
\* C35: in a challenge view with a complete code typed in, a verification
\* that the server rejects as invalid or expired leaves the view as it is,
\* empties the code, shows the server's message and writes nothing to the
\* store; and the state after such a verification is a challenge view with
\* no code and an error, never the dashboard.
C35_RejectionStaysInChallenge ==
  /\ (currentView \in VerifyViews /\ Len(otp) = 6) =>
       \A outcome \in Rejections, rememberDevice \in BOOLEAN,
          next \in {"dashboard", "success"} :
         LET s == handleVerify(Page, rememberDevice, next, outcome)
         IN /\ s.currentView = currentView
            /\ s.otp = <<>>
            /\ s.error = outcome
            /\ s.localStorage = localStorage
            /\ ~s.started
  /\ lastEvent = "verify-rejected" =>
       /\ currentView \in VerifyViews
       /\ otp = <<>>
       /\ error \in Rejections

\* A login verification has just been rejected in a browser that holds no
\* session token.
C35_RejectedLoginCode ==
  /\ lastEvent = "verify-rejected"
  /\ currentView = "verify-login"
  /\ error = "Invalid OTP code"
  /\ ~hasItem(localStorage, "authToken")

\* ------------------------------------------------------------------ C36
\* C36: a login request returns a session token only for the account whose
\* e-mail and password it presents; a login-verification request returns
\* one only for an account whose password an earlier login request has
\* presented; and the token of the last login or login-verification
\* response names such an account.
C36_TokenNeedsPassword ==
  /\ \A email \in Emails \cup Strangers \cup {Undefined},
        password \in Passwords \cup {Undefined},
        deviceId \in DeviceIds \cup {Undefined},
        otpCode \in Codes, emailSent \in BOOLEAN :
       LET r == login(email, password, deviceId, otpCode, emailSent)
       IN r.res.token # NoToken =>
            r.res.token.userId \in PasswordHolders(email, password)
  /\ \A email \in Emails \cup Strangers \cup {Undefined},
        code \in Codes \cup {Undefined},
        deviceId \in DeviceIds \cup {Undefined}, rememberDevice \in BOOLEAN :
       LET r == verifyLoginOTP(email, code, deviceId, rememberDevice)
       IN r.res.token # NoToken => r.res.token.userId \in accepted
  /\ (last.op \in {"login", "verifyLoginOTP"} /\ last.res.token # NoToken) =>
       last.res.token.userId \in accepted

\* A login with the wrong password has just been refused for an account
\* that holds an unexpired trusted-device record.
C36_TrustedDeviceWrongPassword ==
  /\ last.op = "login"
  /\ last.res.token = NoToken
  /\ last.res.status = 400
  /\ \E id \in accepted :
       /\ users[id].email = toLowerCase(last.req.email)
       /\ \E deviceId \in DeviceIds : HoldsUnexpired(id, deviceId)

\* ------------------------------------------------------------------ C37
\* C37: a login for an account with two-factor enabled returns a session
\* token only when that account itself holds an unexpired trusted-device
\* record for the deviceId of the request, whatever records the other
\* accounts hold for it; otherwise a right password is answered with a
\* challenge.
C37_TrustScopedToAccount ==
  \A email \in Emails \cup Strangers, password \in Passwords,
     deviceId \in DeviceIds \cup {Undefined},
     otpCode \in Codes, emailSent \in BOOLEAN :
    LET r == login(email, password, deviceId, otpCode, emailSent)
        id == FindUserByEmail(toLowerCase(email))
    IN (id # 0 /\ users[id].twoFactorEnabled) =>
         /\ r.res.token # NoToken =>
              r.res.token.userId = id /\ HoldsUnexpired(id, deviceId)
         /\ (id \in PasswordHolders(email, password)
               /\ ~HoldsUnexpired(id, deviceId)) =>
              r.res.requiresOTP \/ r.res.mailed = "failed"

\* A login for one account, from a device that another account trusts and
\* this one does not, has just been answered with a challenge.
C37_OtherAccountChallenged ==
  /\ last.op = "login"
  /\ last.res.requiresOTP
  /\ last.res.token = NoToken
  /\ last.req.deviceId # Undefined
  /\ ~HoldsUnexpired(last.res.userId, last.req.deviceId)
  /\ \E id \in 1..Len(users) :
       id # last.res.userId /\ HoldsUnexpired(id, last.req.deviceId)

\* ------------------------------------------------------------------ C38
\* C38: whenever the dashboard is shown the cache holds a session token; a
\* logout from the dashboard removes the token and shows another view in
\* one step, and so does an inactivity timeout.
C38_DashboardHoldsToken ==
  /\ currentView = "dashboard" =>
       /\ Truthy(getItem(localStorage, "authToken"))
       /\ LET s == handleLogout(Page)
          IN /\ s.currentView # "dashboard"
             /\ ~hasItem(s.localStorage, "authToken")
  /\ lastEvent \in {"logout", "timeout"} =>
       /\ currentView # "dashboard"
       /\ ~hasItem(localStorage, "authToken")

\* The dashboard has been left by a timeout, after a login that had
\* stored a token.
C38_TimedOutOfDashboard ==
  /\ lastEvent = "timeout"
  /\ currentView = "login"
  /\ sessionStart + TIMEOUT_DURATION <= clock
  /\ hasItem(localStorage, "deviceId")

\* ------------------------------------------------------------------ C39
\* C39: when the settings view has just loaded the profile and the switch
\* has not been touched, a save that the server accepts leaves the
\* account's twoFactorEnabled as it is stored; in particular a flag that
\* updateProfile has set to false stays false.
C39_SettingsRoundTrip ==
  (lastEvent = "load-settings" /\ last.res.status = 200) =>
    LET id == last.res.userId
        r == handleSave(last.req.auth, twoFactorSwitch)
    IN r.res.status = 200 =>
         r.users[id].twoFactorEnabled = users[id].twoFactorEnabled

====
